---------------------------- MODULE Spec2Model ----------------------------
(***************************************************************************)
(* A model of ddsketch.h (tudor1805/sketches-cpp): the BinList, the three  *)
(* dense stores (BaseDenseStore, CollapsingLowestDenseStore,               *)
(* CollapsingHighestDenseStore), the key mapping and BaseDDSketch.         *)
(*                                                                         *)
(* Conventions.                                                            *)
(*  - A store is a record holding the fields of the C++ object.  bins is a *)
(*    TLA+ sequence, so the C++ element bins_[i] is bins[i + 1].           *)
(*  - Counters and weights are RealValue (double) in the source.  They are *)
(*    modelled exactly, as integers counted in units of 1/WUnit, so the    *)
(*    weight 1.0 is WUnit.  Rounding of doubles is not modelled.           *)
(*  - Index is int64_t in the source; TLC integers have 32 bits, so the    *)
(*    two sentinels numeric_limits<Index>::max()/min() are scaled down to  *)
(*    IndexMax/IndexMin.  Every key the model uses is far from them.       *)
(***************************************************************************)
EXTENDS Integers, Sequences, FiniteSets, TLC

(***************************************************************************)
(* Bounds of the model                                                     *)
(***************************************************************************)
\* keys given to a store lie in -MaxKey .. MaxKey
MaxKey == 2
\* a store under test receives at most MaxAdds add calls
MaxAdds == 4
\* in the runs with merges, keys lie in -MaxMergeKey .. MaxMergeKey and at
\* most MaxMergeAdds add calls are made on the two stores together
MaxMergeKey == 1
MaxMergeAdds == 4
\* bin limits of the collapsing stores range over 1 .. MaxBinLimit
MaxBinLimit == 3
\* chunk sizes range over 1 .. MaxChunk
MaxChunk == 2
\* SpecQuantile: values are the integers -MaxQValue .. MaxQValue
MaxQValue == 5
\* SpecQuantile: at most MaxQAdds add calls
MaxQAdds == 4
\* the chunk size of the stores of a sketch: kChunkSize, 128 in the source,
\* scaled down to the keys of the model
SketchChunk == 2
\* counters and weights are multiples of 1/WUnit: the weight 1.0 is WUnit
WUnit == 2
\* the sketches have gamma = Gamma
Gamma == 2
\* values given to a sketch lie in -MaxValue .. MaxValue
MaxValue == 3
\* at most MaxSketchAdds add calls are made on the sketches together
MaxSketchAdds == 4
\* SpecWeighted: values are the integers -MaxWValue .. MaxWValue, at most
\* MaxWAdds calls are made, and the integer weights are 1.0 .. MaxWeight
MaxWValue == 2
MaxWAdds == 2
MaxWeight == 2
\* SpecGamma: values are the integers -MaxGValue .. MaxGValue and at most
\* MaxGammaAdds values are added
MaxGValue == 2
MaxGammaAdds == 3
\* SpecOrder: values and keys are the integers -MaxOrderValue .. MaxOrderValue
\* and at most MaxOrderAdds pairs are inserted
MaxOrderValue == 1
MaxOrderAdds == 3
\* SpecOrder: the chunk sizes of the store are 1 .. MaxOrderChunk
MaxOrderChunk == 3
\* SpecThreeStores: keys are -MaxAlgKey .. MaxAlgKey and at most MaxAlgAdds
\* add calls are made on the three stores together
MaxAlgKey == 1
MaxAlgAdds == 3
MaxMapValue == 9
MaxStoresAdds == 3
MaxTwinAdds == 3
\* SpecNoLimit: the bin limits asked for are -MaxNoLimit .. 0 and at most
\* MaxNoLimitAdds add calls are made
MaxNoLimit == 1
MaxNoLimitAdds == 3
\* SpecRanges: at most MaxRangeAdds add calls are made on the two stores,
\* with keys -MaxKey .. MaxKey
MaxRangeAdds == 4
\* the ranks asked of a store are the multiples of 1/RankDen from -1 to
\* MaxAdds + 1
RankDen == 2
\* the quantiles asked are 0/QDen, 1/QDen, ..., QDen/QDen
QDen == 4

(***************************************************************************)
(* Program constants                                                       *)
(***************************************************************************)
IndexMax == 1000000
IndexMin == -1000000
kEmptyStoreLength == 0
kDefaultBinLimit == 2048

Min2(a, b) == IF a < b THEN a ELSE b
Max2(a, b) == IF a > b THEN a ELSE b
Abs(a) == IF a < 0 THEN -a ELSE a

(***************************************************************************)
(* BinList                                                                 *)
(***************************************************************************)
Zeros(n) == [i \in 1..n |-> 0]

initialize_with_zeros(num_zeros) == Zeros(num_zeros)

extend_front_with_zeros(data, count) == Zeros(count) \o data

extend_back_with_zeros(data, count) == data \o Zeros(count)

remove_trailing_elements(data, count) == SubSeq(data, 1, Len(data) - count)

remove_leading_elements(data, count) == SubSeq(data, count + 1, Len(data))

\* erase [start_idx, end_idx), then insert num_zeros zeros at start_idx
replace_range_with_zeros(data, start_idx, end_idx, num_zeros) ==
    SubSeq(data, 1, start_idx) \o Zeros(num_zeros)
        \o SubSeq(data, end_idx + 1, Len(data))

index_outside_bounds(data, idx) == idx < 0 \/ idx > Len(data)

RECURSIVE Accumulate(_, _, _)
Accumulate(data, start_idx, end_idx) ==
    IF start_idx >= end_idx THEN 0
    ELSE data[start_idx + 1] + Accumulate(data, start_idx + 1, end_idx)

\* the sum over [start_idx, end_idx); the caller tests index_outside_bounds
collapsed_count(data, start_idx, end_idx) == Accumulate(data, start_idx, end_idx)

\* has_only_zeros that looks at the first bin alone
has_only_zeros_first_bin(data) == Len(data) = 0 \/ data[1] = 0

has_only_zeros(data) == \A i \in 1..Len(data) : data[i] = 0

sum(data) == collapsed_count(data, 0, Len(data))

(***************************************************************************)
(* Stores                                                                  *)
(***************************************************************************)
Kinds == {"dense", "lowest", "highest"}

\* BaseDenseStore(chunk_size) and the two collapsing constructors.
\* thrown records that a BinList operation threw invalid_argument, ub that a
\* deque element outside the container was accessed (undefined behaviour),
\* lost that shift_bins removed an element that was not zero.
\* id names the std::deque object that holds the bins: bins_ is a member by
\* value, so every store has a deque of its own, and bins_ = store.bins_
\* copies the elements into it.
NewStore(kind, bin_limit, chunk_size) ==
    [kind |-> kind,
     count |-> 0,
     min_key |-> IndexMax,
     max_key |-> IndexMin,
     chunk_size |-> chunk_size,
     offset |-> 0,
     bins |-> << >>,
     bin_limit |-> IF kind = "dense" THEN 0 ELSE bin_limit,
     is_collapsed |-> FALSE,
     thrown |-> FALSE,
     ub |-> FALSE,
     lost |-> FALSE,
     id |-> 0]

length(s) == Len(s.bins)

is_empty(s) == length(s) = kEmptyStoreLength

CeilDiv(a, b) == (a + b - 1) \div b

\* get_new_length of the collapsing stores without the cap at bin_limit
get_new_length_uncapped(s, new_min_key, new_max_key) ==
    LET desired_length == new_max_key - new_min_key + 1
        num_chunks == CeilDiv(desired_length, s.chunk_size)
    IN  s.chunk_size * num_chunks

get_new_length(s, new_min_key, new_max_key) ==
    LET desired_length == new_max_key - new_min_key + 1
        num_chunks == CeilDiv(desired_length, s.chunk_size)
    IN  IF s.kind = "dense" THEN s.chunk_size * num_chunks
        ELSE Min2(s.chunk_size * num_chunks, s.bin_limit)

\* shift_bins that moves the offset and leaves the bins where they were
shift_bins_offset_only(s, shift) == [s EXCEPT !.offset = s.offset - shift]

\* shift_bins trimming the bins at the wrong end
shift_bins_wrong_end(s, shift) ==
    IF shift > 0
    THEN [s EXCEPT !.bins = extend_front_with_zeros(
                                remove_leading_elements(s.bins, shift), shift),
                   !.offset = s.offset - shift]
    ELSE [s EXCEPT !.bins = extend_back_with_zeros(
                                remove_trailing_elements(s.bins, Abs(shift)), Abs(shift)),
                   !.offset = s.offset - shift]

\* the elements that shift_bins(shift) erases
Removed(data, shift) ==
    IF shift > 0 THEN SubSeq(data, Len(data) - shift + 1, Len(data))
    ELSE SubSeq(data, 1, Abs(shift))

\* erase(end - count, end) and erase(begin, begin + count) need
\* count <= size; 0 <= start_idx <= end_idx <= size is what collapsed_count
\* and replace_range_with_zeros need of their range
RangeInside(data, start_idx, end_idx) ==
    0 <= start_idx /\ start_idx <= end_idx /\ end_idx <= Len(data)

shift_bins(s, shift) ==
    IF Abs(shift) > length(s) THEN [s EXCEPT !.ub = TRUE]
    ELSE IF shift > 0
    THEN [s EXCEPT !.bins = extend_front_with_zeros(
                                remove_trailing_elements(s.bins, shift), shift),
                   !.offset = s.offset - shift,
                   !.lost = @ \/ ~has_only_zeros(Removed(s.bins, shift))]
    ELSE [s EXCEPT !.bins = extend_back_with_zeros(
                                remove_leading_elements(s.bins, Abs(shift)), Abs(shift)),
                   !.offset = s.offset - shift,
                   !.lost = @ \/ ~has_only_zeros(Removed(s.bins, shift))]

\* center_bins that leaves the offset where it was
center_bins_unmoved(s, new_min_key, new_max_key) ==
    LET middle_key == new_min_key + (new_max_key - new_min_key + 1) \div 2
        shift == s.offset + length(s) \div 2 - middle_key
    IN  [shift_bins(s, shift) EXCEPT !.offset = s.offset]

center_bins(s, new_min_key, new_max_key) ==
    LET middle_key == new_min_key + (new_max_key - new_min_key + 1) \div 2
    IN  shift_bins(s, s.offset + length(s) \div 2 - middle_key)

\* BaseDenseStore::adjust that centers the bins and leaves min_key_ and max_key_
\* as they were
AdjustDense_keeps_keys(s, new_min_key, new_max_key) ==
    center_bins(s, new_min_key, new_max_key)

\* BaseDenseStore::adjust
AdjustDense(s, new_min_key, new_max_key) ==
    [center_bins(s, new_min_key, new_max_key)
        EXCEPT !.min_key = new_min_key, !.max_key = new_max_key]

\* CollapsingLowestDenseStore::adjust that folds one bin too few into the sink
AdjustLowest_off_by_one(s, new_min_key_in, new_max_key) ==
    IF new_max_key - new_min_key_in + 1 > length(s)
    THEN LET new_min_key == new_max_key - length(s) + 1
             t == IF new_min_key > s.max_key
                  THEN [s EXCEPT !.offset = new_min_key,
                                 !.min_key = new_min_key,
                                 !.bins = [initialize_with_zeros(length(s))
                                              EXCEPT ![1] = s.count]]
                  ELSE LET shift == s.offset - new_min_key
                       IN  IF shift < 0
                           THEN LET collapse_start_index == s.min_key - s.offset
                                    collapse_end_index == new_min_key - s.offset
                                    cc == collapsed_count(s.bins,
                                              collapse_start_index, collapse_end_index - 1)
                                    b1 == replace_range_with_zeros(s.bins,
                                              collapse_start_index, collapse_end_index,
                                              new_min_key - s.min_key)
                                    b2 == [b1 EXCEPT ![collapse_end_index + 1] = @ + cc]
                                IN  shift_bins([s EXCEPT !.bins = b2,
                                                         !.min_key = new_min_key], shift)
                           ELSE shift_bins([s EXCEPT !.min_key = new_min_key], shift)
         IN  [t EXCEPT !.max_key = new_max_key, !.is_collapsed = TRUE]
    ELSE [center_bins(s, new_min_key_in, new_max_key)
            EXCEPT !.min_key = new_min_key_in, !.max_key = new_max_key]

\* CollapsingLowestDenseStore::adjust
AdjustLowest(s, new_min_key_in, new_max_key) ==
    IF new_max_key - new_min_key_in + 1 > length(s)
    THEN LET new_min_key == new_max_key - length(s) + 1
             t == IF new_min_key >= s.max_key
                  THEN IF length(s) = 0
                       THEN \* bins_.first() of an empty deque
                            [s EXCEPT !.offset = new_min_key,
                                      !.min_key = new_min_key,
                                      !.ub = TRUE]
                       ELSE [s EXCEPT !.offset = new_min_key,
                                      !.min_key = new_min_key,
                                      !.bins = [initialize_with_zeros(length(s))
                                                   EXCEPT ![1] = s.count]]
                  ELSE LET shift == s.offset - new_min_key
                       IN  IF shift < 0
                           THEN LET collapse_start_index == s.min_key - s.offset
                                    collapse_end_index == new_min_key - s.offset
                                    cc == collapsed_count(s.bins,
                                              collapse_start_index, collapse_end_index)
                                    b1 == replace_range_with_zeros(s.bins,
                                              collapse_start_index, collapse_end_index,
                                              new_min_key - s.min_key)
                                    b2 == [b1 EXCEPT ![collapse_end_index + 1] = @ + cc]
                                IN  IF \/ index_outside_bounds(s.bins, collapse_start_index)
                                       \/ index_outside_bounds(s.bins, collapse_end_index)
                                    THEN [s EXCEPT !.thrown = TRUE]
                                    ELSE IF \/ ~RangeInside(s.bins, collapse_start_index,
                                                            collapse_end_index)
                                            \/ collapse_end_index >= length(s)
                                    THEN [s EXCEPT !.ub = TRUE]
                                    ELSE shift_bins([s EXCEPT !.bins = b2,
                                                              !.min_key = new_min_key],
                                                    shift)
                           ELSE shift_bins([s EXCEPT !.min_key = new_min_key], shift)
         IN  [t EXCEPT !.max_key = new_max_key, !.is_collapsed = TRUE]
    ELSE [center_bins(s, new_min_key_in, new_max_key)
            EXCEPT !.min_key = new_min_key_in, !.max_key = new_max_key]

\* CollapsingHighestDenseStore::adjust that puts everything in the first bin
AdjustHighest_first_bin(s, new_min_key, new_max_key_in) ==
    IF new_max_key_in - new_min_key + 1 > length(s)
    THEN LET new_max_key == new_min_key + length(s) - 1
             t == IF new_max_key <= s.min_key
                  THEN [s EXCEPT !.offset = new_min_key,
                                 !.max_key = new_max_key,
                                 !.bins = [initialize_with_zeros(length(s))
                                              EXCEPT ![1] = s.count]]
                  ELSE LET shift == s.offset - new_min_key
                       IN  IF shift > 0
                           THEN LET collapse_start_index == new_max_key - s.offset + 1
                                    collapse_end_index == s.max_key - s.offset + 1
                                    cc == collapsed_count(s.bins,
                                              collapse_start_index, collapse_end_index)
                                    b1 == replace_range_with_zeros(s.bins,
                                              collapse_start_index, collapse_end_index,
                                              s.max_key - new_max_key)
                                    b2 == [b1 EXCEPT ![collapse_start_index] = @ + cc]
                                IN  shift_bins([s EXCEPT !.bins = b2,
                                                         !.max_key = new_max_key], shift)
                           ELSE shift_bins([s EXCEPT !.max_key = new_max_key], shift)
         IN  [t EXCEPT !.min_key = new_min_key, !.is_collapsed = TRUE]
    ELSE [center_bins(s, new_min_key, new_max_key_in)
            EXCEPT !.min_key = new_min_key, !.max_key = new_max_key_in]

\* CollapsingHighestDenseStore::adjust whose collapsed range ends one bin
\* after the bin of max_key_
AdjustHighest_end_past_max(s, new_min_key, new_max_key_in) ==
    IF new_max_key_in - new_min_key + 1 > length(s)
    THEN LET new_max_key == new_min_key + length(s) - 1
             t == IF new_max_key <= s.min_key
                  THEN IF length(s) = 0
                       THEN \* bins_.last() of an empty deque
                            [s EXCEPT !.offset = new_min_key,
                                      !.max_key = new_max_key,
                                      !.ub = TRUE]
                       ELSE [s EXCEPT !.offset = new_min_key,
                                      !.max_key = new_max_key,
                                      !.bins = [initialize_with_zeros(length(s))
                                                   EXCEPT ![length(s)] = s.count]]
                  ELSE LET shift == s.offset - new_min_key
                       IN  IF shift > 0
                           THEN LET collapse_start_index == new_max_key - s.offset + 1
                                    collapse_end_index == s.max_key - s.offset + 2
                                    cc == collapsed_count(s.bins,
                                              collapse_start_index, collapse_end_index)
                                    b1 == replace_range_with_zeros(s.bins,
                                              collapse_start_index, collapse_end_index,
                                              s.max_key - new_max_key)
                                    b2 == [b1 EXCEPT ![collapse_start_index] = @ + cc]
                                IN  IF \/ index_outside_bounds(s.bins, collapse_start_index)
                                       \/ index_outside_bounds(s.bins, collapse_end_index)
                                    THEN [s EXCEPT !.thrown = TRUE]
                                    ELSE IF \/ ~RangeInside(s.bins, collapse_start_index,
                                                            collapse_end_index)
                                            \/ collapse_start_index < 1
                                    THEN [s EXCEPT !.ub = TRUE]
                                    ELSE shift_bins([s EXCEPT !.bins = b2,
                                                              !.max_key = new_max_key],
                                                    shift)
                           ELSE shift_bins([s EXCEPT !.max_key = new_max_key], shift)
         IN  [t EXCEPT !.min_key = new_min_key, !.is_collapsed = TRUE]
    ELSE [center_bins(s, new_min_key, new_max_key_in)
            EXCEPT !.min_key = new_min_key, !.max_key = new_max_key_in]

\* CollapsingHighestDenseStore::adjust
AdjustHighest(s, new_min_key, new_max_key_in) ==
    IF new_max_key_in - new_min_key + 1 > length(s)
    THEN LET new_max_key == new_min_key + length(s) - 1
             t == IF new_max_key <= s.min_key
                  THEN IF length(s) = 0
                       THEN \* bins_.last() of an empty deque
                            [s EXCEPT !.offset = new_min_key,
                                      !.max_key = new_max_key,
                                      !.ub = TRUE]
                       ELSE [s EXCEPT !.offset = new_min_key,
                                      !.max_key = new_max_key,
                                      !.bins = [initialize_with_zeros(length(s))
                                                   EXCEPT ![length(s)] = s.count]]
                  ELSE LET shift == s.offset - new_min_key
                       IN  IF shift > 0
                           THEN LET collapse_start_index == new_max_key - s.offset + 1
                                    collapse_end_index == s.max_key - s.offset + 1
                                    cc == collapsed_count(s.bins,
                                              collapse_start_index, collapse_end_index)
                                    b1 == replace_range_with_zeros(s.bins,
                                              collapse_start_index, collapse_end_index,
                                              s.max_key - new_max_key)
                                    b2 == [b1 EXCEPT ![collapse_start_index] = @ + cc]
                                IN  IF \/ index_outside_bounds(s.bins, collapse_start_index)
                                       \/ index_outside_bounds(s.bins, collapse_end_index)
                                    THEN [s EXCEPT !.thrown = TRUE]
                                    ELSE IF \/ ~RangeInside(s.bins, collapse_start_index,
                                                            collapse_end_index)
                                            \/ collapse_start_index < 1
                                    THEN [s EXCEPT !.ub = TRUE]
                                    ELSE shift_bins([s EXCEPT !.bins = b2,
                                                              !.max_key = new_max_key],
                                                    shift)
                           ELSE shift_bins([s EXCEPT !.max_key = new_max_key], shift)
         IN  [t EXCEPT !.min_key = new_min_key, !.is_collapsed = TRUE]
    ELSE [center_bins(s, new_min_key, new_max_key_in)
            EXCEPT !.min_key = new_min_key, !.max_key = new_max_key_in]

\* an adjust of the collapsing stores that sets is_collapsed_ after its
\* if statement, in the branch that centers the bins as well
adjust_flags_always(s, new_min_key, new_max_key) ==
    CASE s.kind = "dense"   -> AdjustDense(s, new_min_key, new_max_key)
      [] s.kind = "lowest"  ->
             [AdjustLowest(s, new_min_key, new_max_key)
                 EXCEPT !.is_collapsed = TRUE]
      [] s.kind = "highest" ->
             [AdjustHighest(s, new_min_key, new_max_key)
                 EXCEPT !.is_collapsed = TRUE]

\* an adjust that collapses the bins and leaves is_collapsed_ as it was
adjust_not_flagged(s, new_min_key, new_max_key) ==
    CASE s.kind = "dense"   -> AdjustDense(s, new_min_key, new_max_key)
      [] s.kind = "lowest"  ->
             [AdjustLowest(s, new_min_key, new_max_key)
                 EXCEPT !.is_collapsed = s.is_collapsed]
      [] s.kind = "highest" ->
             [AdjustHighest(s, new_min_key, new_max_key)
                 EXCEPT !.is_collapsed = s.is_collapsed]

\* the virtual call adjust(new_min_key, new_max_key)
adjust(s, new_min_key, new_max_key) ==
    CASE s.kind = "dense"   -> AdjustDense(s, new_min_key, new_max_key)
      [] s.kind = "lowest"  -> AdjustLowest(s, new_min_key, new_max_key)
      [] s.kind = "highest" -> AdjustHighest(s, new_min_key, new_max_key)

\* extend_range that takes the new minimum from the arguments alone
extend_range_forgets_min(s, key, second_key) ==
    LET new_min_key == Min2(key, second_key)
        new_max_key == Max2(Max2(key, second_key), s.max_key)
    IN  IF is_empty(s)
        THEN LET new_length == get_new_length(s, new_min_key, new_max_key)
             IN  adjust([s EXCEPT !.bins = initialize_with_zeros(new_length),
                                  !.offset = new_min_key],
                        new_min_key, new_max_key)
        ELSE IF new_min_key >= s.min_key /\ new_max_key < s.offset + length(s)
        THEN [s EXCEPT !.min_key = new_min_key, !.max_key = new_max_key]
        ELSE LET new_length == get_new_length(s, new_min_key, new_max_key)
                 g == IF new_length > length(s)
                      THEN [s EXCEPT !.bins = extend_back_with_zeros(
                                                  s.bins, new_length - length(s))]
                      ELSE s
             IN  adjust(g, new_min_key, new_max_key)

\* BaseDenseStore::extend_range(key, second_key)
extend_range(s, key, second_key) ==
    LET new_min_key == Min2(Min2(key, second_key), s.min_key)
        new_max_key == Max2(Max2(key, second_key), s.max_key)
    IN  IF is_empty(s)
        THEN LET new_length == get_new_length(s, new_min_key, new_max_key)
             IN  IF new_length < 0
                 THEN \* Container(num_zeros, 0) for the size_t of a negative
                      \* length throws std::length_error
                      [s EXCEPT !.thrown = TRUE]
                 ELSE adjust([s EXCEPT !.bins = initialize_with_zeros(new_length),
                                       !.offset = new_min_key],
                             new_min_key, new_max_key)
        ELSE IF new_min_key >= s.min_key /\ new_max_key < s.offset + length(s)
        THEN [s EXCEPT !.min_key = new_min_key, !.max_key = new_max_key]
        ELSE LET new_length == get_new_length(s, new_min_key, new_max_key)
                 g == IF new_length > length(s)
                      THEN [s EXCEPT !.bins = extend_back_with_zeros(
                                                  s.bins, new_length - length(s))]
                      ELSE s
             IN  adjust(g, new_min_key, new_max_key)

\* return key - offset_;  A get_index gives the store after the call and the
\* index returned.
IndexOf(t, key) == [store |-> t, idx |-> key - t.offset]

\* after extend_range(key): if (is_collapsed_) return 0; else return key - offset_;
IndexOrFirst(t, key) ==
    IF t.is_collapsed THEN [store |-> t, idx |-> 0] ELSE IndexOf(t, key)

\* after extend_range(key): if (is_collapsed_) return length() - 1; else return
\* key - offset_;
IndexOrLast(t, key) ==
    IF t.is_collapsed THEN [store |-> t, idx |-> length(t) - 1] ELSE IndexOf(t, key)

GetIndexDense(s, key) ==
    IF key < s.min_key \/ key > s.max_key
    THEN IndexOf(extend_range(s, key, key), key)
    ELSE IndexOf(s, key)

\* get_index of the collapsing-lowest store that takes the last bin for the
\* sink of a collapsed store
GetIndexLowest_last_bin(s, key) ==
    IF key < s.min_key
    THEN IF s.is_collapsed
         THEN [store |-> s, idx |-> length(s) - 1]
         ELSE IndexOrFirst(extend_range(s, key, key), key)
    ELSE IF key > s.max_key
    THEN IndexOf(extend_range(s, key, key), key)
    ELSE IndexOf(s, key)

GetIndexLowest(s, key) ==
    IF key < s.min_key
    THEN IF s.is_collapsed
         THEN [store |-> s, idx |-> 0]
         ELSE IndexOrFirst(extend_range(s, key, key), key)
    ELSE IF key > s.max_key
    THEN IndexOf(extend_range(s, key, key), key)
    ELSE IndexOf(s, key)

GetIndexHighest(s, key) ==
    IF key > s.max_key
    THEN IF s.is_collapsed
         THEN [store |-> s, idx |-> length(s) - 1]
         ELSE IndexOrLast(extend_range(s, key, key), key)
    ELSE IF key < s.min_key
    THEN IndexOf(extend_range(s, key, key), key)
    ELSE IndexOf(s, key)

get_index(s, key) ==
    CASE s.kind = "dense"   -> GetIndexDense(s, key)
      [] s.kind = "lowest"  -> GetIndexLowest(s, key)
      [] s.kind = "highest" -> GetIndexHighest(s, key)

\* an add that counts one unit in the bin whatever the weight is
AddAt_one(r, weight) ==
    [r.store EXCEPT !.bins[r.idx + 1] = @ + WUnit,
                    !.count = @ + weight]

\* bins_[idx] += weight; count_ += weight; for r = the store after get_index
\* and the index it returned
AddAt(r, weight) ==
    IF r.idx < 0 \/ r.idx >= length(r.store)
    THEN \* bins_[idx] outside the deque
         [r.store EXCEPT !.ub = TRUE, !.count = @ + weight]
    ELSE [r.store EXCEPT !.bins[r.idx + 1] = @ + weight,
                         !.count = @ + weight]

\* the rest of add after get_index gave r: an exception of get_index leaves
\* add, otherwise bins_[idx] += weight; count_ += weight;
AddAfterIndex(s, r, weight) ==
    IF r.store.thrown THEN r.store
    ELSE AddAt([r EXCEPT !.store.thrown = s.thrown], weight)

\* BaseDenseStore::add(key, weight)
StoreAdd(s, key, weight) ==
    AddAfterIndex(s, get_index([s EXCEPT !.thrown = FALSE], key), weight)

\* BaseDenseStore::key_at_rank(rank, lower).  rank is a real number, given as
\* the fraction rank_num / rank_den of a unit weight (rank_den > 0); counters
\* are in units of 1/WUnit, so running_ct > rank is
\* running * rank_den > rank_num * WUnit.
RECURSIVE KeyAtRankFrom(_, _, _, _, _, _)
KeyAtRankFrom(s, idx, running_before, rank_num, rank_den, lower) ==
    IF idx >= length(s) THEN s.max_key
    ELSE LET running_ct == running_before + s.bins[idx + 1]
         IN  IF \/ lower /\ running_ct * rank_den > rank_num * WUnit
                \/ ~lower /\ running_ct * rank_den >= (rank_num + rank_den) * WUnit
             THEN idx + s.offset
             ELSE KeyAtRankFrom(s, idx + 1, running_ct, rank_num, rank_den, lower)

\* key_at_rank that applies the test of lower = true whatever lower is
key_at_rank_always_lower(s, rank_num, rank_den, lower) ==
    KeyAtRankFrom(s, 0, 0, rank_num, rank_den, TRUE)

key_at_rank(s, rank_num, rank_den, lower) ==
    KeyAtRankFrom(s, 0, 0, rank_num, rank_den, lower)

\* a copy that takes over the deque of the other store instead of its elements
StoreCopy_shallow(s, store) ==
    IF s.kind = "dense"
    THEN [s EXCEPT !.count = store.count,
                   !.min_key = store.min_key,
                   !.max_key = store.max_key,
                   !.offset = store.offset,
                   !.bins = store.bins,
                   !.id = store.id]
    ELSE [s EXCEPT !.count = store.count,
                   !.min_key = store.min_key,
                   !.max_key = store.max_key,
                   !.offset = store.offset,
                   !.bins = store.bins,
                   !.id = store.id,
                   !.bin_limit = store.bin_limit,
                   !.is_collapsed = store.is_collapsed]

\* BaseDenseStore::copy and the copy of the collapsing stores
StoreCopy(s, store) ==
    IF s.kind = "dense"
    THEN [s EXCEPT !.count = store.count,
                   !.min_key = store.min_key,
                   !.max_key = store.max_key,
                   !.offset = store.offset,
                   !.bins = store.bins]
    ELSE [s EXCEPT !.count = store.count,
                   !.min_key = store.min_key,
                   !.max_key = store.max_key,
                   !.offset = store.offset,
                   !.bins = store.bins,
                   !.bin_limit = store.bin_limit,
                   !.is_collapsed = store.is_collapsed]

\* for (key = from_key; key <= to_key; ++key)
\*     bins_[key - offset_] += store.bins_[key - store.offset_];
RECURSIVE MergeLoop(_, _, _, _)
MergeLoop(s, store, from_key, to_key) ==
    IF from_key > to_key THEN s
    ELSE LET i == from_key - s.offset
             j == from_key - store.offset
         IN  IF i < 0 \/ i >= length(s) \/ j < 0 \/ j >= length(store)
             THEN [s EXCEPT !.ub = TRUE]
             ELSE MergeLoop([s EXCEPT !.bins[i + 1] = @ + store.bins[j + 1]],
                            store, from_key + 1, to_key)

\* if (store.min_key_ < min_key_ || store.max_key_ > max_key_)
\*     extend_range(store.min_key_, store.max_key_);
MergeRange(s, store) ==
    IF store.min_key < s.min_key \/ store.max_key > s.max_key
    THEN extend_range(s, store.min_key, store.max_key)
    ELSE s

\* a merge that leaves count_ as it was
MergeCount_forgotten(m, store) == m

\* count_ += store.count_, the last statement of a merge whose loop stayed
\* inside both deques
MergeCount(m, store) ==
    IF m.ub THEN m ELSE [m EXCEPT !.count = m.count + store.count]

\* BaseDenseStore::merge whose loop stops before store.max_key_
MergeDense_short_loop(s, store) ==
    IF store.count = 0 THEN s
    ELSE IF s.count = 0 THEN StoreCopy(s, store)
    ELSE MergeCount(MergeLoop(MergeRange(s, store), store,
                              store.min_key, store.max_key - 1), store)

\* BaseDenseStore::merge
MergeDense(s, store) ==
    IF store.count = 0 THEN s
    ELSE IF s.count = 0 THEN StoreCopy(s, store)
    ELSE MergeCount(MergeLoop(MergeRange(s, store), store,
                              store.min_key, store.max_key), store)

\* CollapsingLowestDenseStore::merge after its extend_range, e the receiver.
\* collapsed_count is taken from bins_, the receiver's own bins, at indices
\* computed from store.offset_.
MergeLowestBins(e, store) ==
    LET collapse_start_idx == store.min_key - store.offset
        collapse_end_idx == Min2(e.min_key, store.max_key + 1) - store.offset
    IN  IF collapse_end_idx > collapse_start_idx
        THEN IF \/ index_outside_bounds(e.bins, collapse_start_idx)
                \/ index_outside_bounds(e.bins, collapse_end_idx)
             THEN [e EXCEPT !.thrown = TRUE]
             ELSE MergeCount(
                      MergeLoop([e EXCEPT !.bins[1] =
                                     @ + collapsed_count(e.bins, collapse_start_idx,
                                                         collapse_end_idx)],
                                store, collapse_end_idx + store.offset, store.max_key),
                      store)
        ELSE MergeCount(MergeLoop(e, store, collapse_start_idx + store.offset,
                                  store.max_key), store)

\* CollapsingLowestDenseStore::merge
MergeLowest(s, store) ==
    IF store.count = 0 THEN s
    ELSE IF s.count = 0 THEN StoreCopy(s, store)
    ELSE MergeLowestBins(MergeRange(s, store), store)

\* CollapsingHighestDenseStore::merge after its extend_range, e the receiver
MergeHighestBins(e, store) ==
    LET collapse_end_idx == store.max_key - store.offset + 1
        collapse_start_idx == Max2(e.max_key + 1, store.min_key) - store.offset
    IN  IF collapse_end_idx > collapse_start_idx
        THEN IF \/ index_outside_bounds(e.bins, collapse_start_idx)
                \/ index_outside_bounds(e.bins, collapse_end_idx)
             THEN [e EXCEPT !.thrown = TRUE]
             ELSE MergeCount(
                      MergeLoop([e EXCEPT !.bins[length(e)] =
                                     @ + collapsed_count(e.bins, collapse_start_idx,
                                                         collapse_end_idx)],
                                store, store.min_key,
                                collapse_start_idx + store.offset - 1),
                      store)
        ELSE MergeCount(MergeLoop(e, store, store.min_key,
                                  collapse_end_idx + store.offset - 1), store)

\* CollapsingHighestDenseStore::merge
MergeHighest(s, store) ==
    IF store.count = 0 THEN s
    ELSE IF s.count = 0 THEN StoreCopy(s, store)
    ELSE MergeHighestBins(MergeRange(s, store), store)

\* merge(store) of the store's concrete class
StoreMerge(s, store) ==
    CASE s.kind = "dense"   -> MergeDense(s, store)
      [] s.kind = "lowest"  -> MergeLowest(s, store)
      [] s.kind = "highest" -> MergeHighest(s, store)

\* the counter a store holds for a key (0 outside the window)
Counter(s, key) ==
    IF key - s.offset >= 0 /\ key - s.offset < length(s)
    THEN s.bins[key - s.offset + 1] ELSE 0

(***************************************************************************)
(* KeyMapping (LogarithmicMapping), in exact arithmetic.  The sketches of  *)
(* the model have gamma = Gamma, an integer, that is the relative accuracy *)
(* alpha = (Gamma - 1) / (Gamma + 1); values are integers.  The doubles    *)
(* numeric_limits<double>::min() and min_possible lie strictly between 0   *)
(* and the smallest positive value, 1: bounds on values are therefore kept *)
(* in half units (the value v is 2 * v), where both are 1.                 *)
(***************************************************************************)
Half(v) == 2 * v
kRealMin == 1
kRealMax == 2000000
min_possible == 1

RECURSIVE Pow(_, _)
Pow(g, n) == IF n <= 0 THEN 1 ELSE g * Pow(g, n - 1)

\* ceil(log_gamma(value)) for an integer value >= 1
RECURSIVE CeilLog(_, _, _)
CeilLog(g, val, k) == IF Pow(g, k) >= val THEN k ELSE CeilLog(g, val, k + 1)

\* KeyMapping::key rounding the logarithm down instead of up
mapping_key_floor(g, val) ==
    LET c == CeilLog(g, val, 0)
    IN  IF Pow(g, c) = val THEN c ELSE c - 1

\* KeyMapping::key with offset_ = 0
mapping_key(g, val) == CeilLog(g, val, 0)

\* KeyMapping::value: pow_gamma(key) * 2 / (1 + gamma), as the numerator of a
\* fraction with the denominator 1 + gamma.  The keys of the model's values
\* are >= 0; a key below 0 is the max_key_ of an empty store, for which
\* exp2 underflows to 0.0.
mapping_value(g, k) == IF k < 0 THEN 0 ELSE 2 * Pow(g, k)

(***************************************************************************)
(* KeyMapping with its offset and its three implementations.  A real       *)
(* number is a fraction [num, den] with den > 0.  LogarithmicMapping has   *)
(* the integer gamma = Gamma; the interpolated mappings have               *)
(* ln(gamma) = LogGammaNum / LogGammaDen, so that multiplier_ and the      *)
(* approximate logarithms are fractions.  pow_gamma of a fraction is       *)
(* irrational for the logarithmic and the cubic mapping; it is given by    *)
(* its comparison with a fraction, which is exact.                         *)
(***************************************************************************)
Variants == {"logarithmic", "linear", "cubic"}

LogGammaNum == 1
LogGammaDen == 2

\* fractions between which gamma = exp(LogGammaNum / LogGammaDen) lies:
\* 23/14 < exp(1/2) < 5/3
GammaBelowNum == 23
GammaBelowDen == 14
GammaAboveNum == 5
GammaAboveDen == 3

Frac(num, den) == [num |-> num, den |-> den]

\* std::ceil and std::floor of num / den
Ceil(num, den) == -((-num) \div den)
Floor(num, den) == num \div den

\* a conversion to Index that rounds down
static_cast_Index_floor(num, den) == num \div den

\* static_cast<Index>(num / den): the fraction is discarded, towards zero
static_cast_Index(num, den) ==
    IF num >= 0 THEN num \div den ELSE -((-num) \div den)

\* exponent - 1 of std::frexp(num / den, &exponent) for num / den >= 1: the
\* largest e with 2^e <= num / den
RECURSIVE FrexpExponent(_, _, _)
FrexpExponent(num, den, e) ==
    IF Pow(2, e + 1) * den <= num THEN FrexpExponent(num, den, e + 1) ELSE e

\* significand = 2.0 * mantissa - 1 as the fraction a / b, for the exponent e
SignificandDen(den, e) == den * Pow(2, e)
SignificandNum(num, den, e) == num - den * Pow(2, e)

\* LinearlyInterpolatedMapping::log2_approx: significand + (exponent - 1)
Log2ApproxAt(a, b, e) == Frac(a + e * b, b)

log2_approx(num, den) ==
    Log2ApproxAt(SignificandNum(num, den, FrexpExponent(num, den, 0)),
                 SignificandDen(den, FrexpExponent(num, den, 0)),
                 FrexpExponent(num, den, 0))

\* CubicallyInterpolatedMapping::cubic_log2_approx with A_ = 6/35, B_ = -3/5,
\* C_ = 10/7: ((A_ s + B_) s + C_) s + (exponent - 1) for s = a / b
CubicLog2ApproxAt(a, b, e) ==
    Frac(6 * a * a * a - 21 * a * a * b + 50 * a * b * b + 35 * e * b * b * b,
         35 * b * b * b)

cubic_log2_approx(num, den) ==
    CubicLog2ApproxAt(SignificandNum(num, den, FrexpExponent(num, den, 0)),
                      SignificandDen(den, FrexpExponent(num, den, 0)),
                      FrexpExponent(num, den, 0))

\* std::ceil(log_gamma(value)) for an integer value >= 1.  multiplier_ is
\* 1 / ln(gamma) for the linear mapping and 1 / (ln(gamma) * C_) for the
\* cubic mapping (35 * 10 / 7 = 50).
CeilLinear(l) == Ceil(l.num * LogGammaDen, l.den * LogGammaNum)

CeilCubic(c) == Ceil(c.num * LogGammaDen, (c.den \div 35) * 50 * LogGammaNum)

CeilLogGamma(variant, value) ==
    CASE variant = "logarithmic" -> mapping_key(Gamma, value)
      [] variant = "linear"      -> CeilLinear(log2_approx(value, 1))
      [] variant = "cubic"       -> CeilCubic(cubic_log2_approx(value, 1))

\* KeyMapping::key: static_cast<Index>(std::ceil(log_gamma(value)) + offset_)
KeyAt(c, offset) == static_cast_Index(c * offset.den + offset.num, offset.den)

KeyMapping_key(m, value) == KeyAt(CeilLogGamma(m.variant, value), m.offset)

\* key - offset_, the argument of pow_gamma in KeyMapping::value
KeyLessOffset(k, offset) == Frac(k * offset.den - offset.num, offset.den)

\* LinearlyInterpolatedMapping::exp2_approx(y): exponent = floor(y) + 1,
\* mantissa = (y - exponent + 2) / 2, ldexp(mantissa, exponent), which is
\* (y - floor(y) + 1) * 2^floor(y)
Exp2ApproxAt(y, f) ==
    IF f >= 0
    THEN Frac((y.num - f * y.den + y.den) * Pow(2, f), y.den)
    ELSE Frac(y.num - f * y.den + y.den, y.den * Pow(2, -f))

exp2_approx(y) == Exp2ApproxAt(y, Floor(y.num, y.den))

\* value / multiplier_ of the linear mapping
TimesLogGamma(x) == Frac(x.num * LogGammaNum, x.den * LogGammaDen)

\* Gamma^(x.num / x.den) >= num / den and <= num / den, by the powers
\* of both sides
LogPowAtLeast(x, num, den) ==
    IF x.num >= 0
    THEN Pow(Gamma, x.num) * Pow(den, x.den) >= Pow(num, x.den)
    ELSE Pow(den, x.den) >= Pow(num, x.den) * Pow(Gamma, -x.num)

LogPowAtMost(x, num, den) ==
    IF x.num >= 0
    THEN Pow(Gamma, x.num) * Pow(den, x.den) <= Pow(num, x.den)
    ELSE Pow(den, x.den) <= Pow(num, x.den) * Pow(Gamma, -x.num)

\* cubic_exp2_approx(y) is the root of the cubic (Cardano's formula), the
\* number whose cubic_log2_approx is y; cubic_log2_approx is increasing, so
\* cubic_exp2_approx(x * ln(gamma) * C_) >= num / den exactly when
\* x * ln(gamma) * C_ >= cubic_log2_approx(num / den)
CubicPowAtLeast(x, c) ==
    x.num * LogGammaNum * 50 * (c.den \div 35) >= c.num * x.den * LogGammaDen

CubicPowAtMost(x, c) ==
    x.num * LogGammaNum * 50 * (c.den \div 35) <= c.num * x.den * LogGammaDen

LinearPowAtLeast(r, num, den) == r.num * den >= num * r.den

LinearPowAtMost(r, num, den) == r.num * den <= num * r.den

\* pow_gamma(x) >= num / den and pow_gamma(x) <= num / den, for num / den >= 1
PowGammaAtLeast(variant, x, num, den) ==
    CASE variant = "logarithmic" -> LogPowAtLeast(x, num, den)
      [] variant = "linear"      ->
             LinearPowAtLeast(exp2_approx(TimesLogGamma(x)), num, den)
      [] variant = "cubic"       ->
             CubicPowAtLeast(x, cubic_log2_approx(num, den))

PowGammaAtMost(variant, x, num, den) ==
    CASE variant = "logarithmic" -> LogPowAtMost(x, num, den)
      [] variant = "linear"      ->
             LinearPowAtMost(exp2_approx(TimesLogGamma(x)), num, den)
      [] variant = "cubic"       ->
             CubicPowAtMost(x, cubic_log2_approx(num, den))

\* KeyMapping::value(k) = pow_gamma(k - offset_) * 2 / (1 + gamma) lies within
\* the relative accuracy alpha = (gamma - 1) / (gamma + 1) of value exactly
\* when value <= pow_gamma(k - offset_) <= gamma * value.  For the
\* interpolated mappings gamma * value is replaced by the smaller
\* GammaBelow * value, and ValueOutsideAccuracy by the larger GammaAbove * value.
ValueWithinAccuracy(m, k, value) ==
    /\ PowGammaAtLeast(m.variant, KeyLessOffset(k, m.offset), value, 1)
    /\ IF m.variant = "logarithmic"
       THEN PowGammaAtMost(m.variant, KeyLessOffset(k, m.offset), Gamma * value, 1)
       ELSE PowGammaAtMost(m.variant, KeyLessOffset(k, m.offset),
                           GammaBelowNum * value, GammaBelowDen)

ValueOutsideAccuracy(m, k, value) ==
    \/ ~PowGammaAtLeast(m.variant, KeyLessOffset(k, m.offset), value, 1)
    \/ IF m.variant = "logarithmic"
       THEN ~PowGammaAtMost(m.variant, KeyLessOffset(k, m.offset), Gamma * value, 1)
       ELSE ~PowGammaAtMost(m.variant, KeyLessOffset(k, m.offset),
                            GammaAboveNum * value, GammaAboveDen)

(***************************************************************************)
(* BaseDDSketch                                                            *)
(***************************************************************************)
NewSketch(g, store, negative_store) ==
    [gamma |-> g,
     store |-> store,
     negative_store |-> negative_store,
     zero_count |-> 0,
     count |-> 0,
     min |-> kRealMax,
     max |-> kRealMin,
     sum |-> 0,
     thrown |-> FALSE]

num_values(k) == k.count

\* BaseDDSketch::sum()
sketch_sum(k) == k.sum

\* BaseDDSketch::avg(), the quotient sum_ / count_ as a fraction
avg(k) == [num |-> k.sum, den |-> k.count]

\* BaseDDSketch::add that adds the value to sum_ without its weight
SketchAdd_unweighted_sum(k, val, weight) ==
    IF weight <= 0 THEN [k EXCEPT !.thrown = TRUE]
    ELSE LET r == IF Half(val) > min_possible
                  THEN [k EXCEPT !.store = StoreAdd(k.store, mapping_key(k.gamma, val), weight)]
                  ELSE IF Half(val) < -min_possible
                  THEN [k EXCEPT !.negative_store =
                            StoreAdd(k.negative_store, mapping_key(k.gamma, -val), weight)]
                  ELSE [k EXCEPT !.zero_count = k.zero_count + weight]
         IN  [r EXCEPT !.count = k.count + weight,
                       !.sum = k.sum + val * WUnit,
                       !.min = IF Half(val) < k.min THEN Half(val) ELSE k.min,
                       !.max = IF Half(val) > k.max THEN Half(val) ELSE k.max]

\* BaseDDSketch::add that accepts every weight
SketchAdd_unchecked(k, val, weight) ==
    LET r == IF Half(val) > min_possible
             THEN [k EXCEPT !.store = StoreAdd(k.store, mapping_key(k.gamma, val), weight)]
             ELSE IF Half(val) < -min_possible
             THEN [k EXCEPT !.negative_store =
                       StoreAdd(k.negative_store, mapping_key(k.gamma, -val), weight)]
             ELSE [k EXCEPT !.zero_count = k.zero_count + weight]
    IN  [r EXCEPT !.count = k.count + weight,
                  !.sum = k.sum + val * weight,
                  !.min = IF Half(val) < k.min THEN Half(val) ELSE k.min,
                  !.max = IF Half(val) > k.max THEN Half(val) ELSE k.max]

\* an add that counts every value in zero_count_ as well
SketchAdd_also_zero(k, val, weight) ==
    IF weight <= 0 THEN [k EXCEPT !.thrown = TRUE]
    ELSE LET r == IF Half(val) > min_possible
                  THEN [k EXCEPT !.store = StoreAdd(k.store, mapping_key(k.gamma, val), weight)]
                  ELSE IF Half(val) < -min_possible
                  THEN [k EXCEPT !.negative_store =
                            StoreAdd(k.negative_store, mapping_key(k.gamma, -val), weight)]
                  ELSE k
         IN  [r EXCEPT !.zero_count = k.zero_count + weight,
                       !.count = k.count + weight,
                       !.sum = k.sum + val * weight,
                       !.min = IF Half(val) < k.min THEN Half(val) ELSE k.min,
                       !.max = IF Half(val) > k.max THEN Half(val) ELSE k.max]

\* BaseDDSketch::add(val, weight); weight in units of 1/WUnit
SketchAdd(k, val, weight) ==
    IF weight <= 0 THEN [k EXCEPT !.thrown = TRUE]
    ELSE LET r == IF Half(val) > min_possible
                  THEN [k EXCEPT !.store = StoreAdd(k.store, mapping_key(k.gamma, val), weight)]
                  ELSE IF Half(val) < -min_possible
                  THEN [k EXCEPT !.negative_store =
                            StoreAdd(k.negative_store, mapping_key(k.gamma, -val), weight)]
                  ELSE [k EXCEPT !.zero_count = k.zero_count + weight]
         IN  [r EXCEPT !.count = k.count + weight,
                       !.sum = k.sum + val * weight,
                       !.min = IF Half(val) < k.min THEN Half(val) ELSE k.min,
                       !.max = IF Half(val) > k.max THEN Half(val) ELSE k.max]

\* the results of get_quantile_value: NaN, or the fraction num / (1 + gamma)
NaN == [nan |-> TRUE, num |-> 0]
Real(num) == [nan |-> FALSE, num |-> num]

\* get_quantile_value that answers 0 for a sketch without values
get_quantile_value_empty_zero(k, q_num, q_den) ==
    IF q_num < 0 \/ q_num > q_den THEN NaN
    ELSE IF k.count = 0 THEN Real(0)
    ELSE LET rank_num == q_num * (k.count - WUnit)
             rank_den == q_den * WUnit
             neg_num == k.negative_store.count * q_den
             zero_num == k.zero_count * q_den
         IN  IF rank_num < neg_num
             THEN LET reversed_num == neg_num - rank_num - rank_den
                      kk == key_at_rank(k.negative_store, reversed_num, rank_den, FALSE)
                  IN  Real(-mapping_value(k.gamma, kk))
             ELSE IF rank_num < zero_num + neg_num
             THEN Real(0)
             ELSE LET kk == key_at_rank(k.store, rank_num - zero_num - neg_num,
                                        rank_den, TRUE)
                  IN  Real(mapping_value(k.gamma, kk))

\* get_quantile_value that does not reverse the rank in the negative store
get_quantile_value_no_reverse(k, q_num, q_den) ==
    IF q_num < 0 \/ q_num > q_den \/ k.count = 0 THEN NaN
    ELSE LET rank_num == q_num * (k.count - WUnit)
             rank_den == q_den * WUnit
             neg_num == k.negative_store.count * q_den
             zero_num == k.zero_count * q_den
         IN  IF rank_num < neg_num
             THEN LET kk == key_at_rank(k.negative_store, rank_num, rank_den, FALSE)
                  IN  Real(-mapping_value(k.gamma, kk))
             ELSE IF rank_num < zero_num + neg_num
             THEN Real(0)
             ELSE LET kk == key_at_rank(k.store, rank_num - zero_num - neg_num,
                                        rank_den, TRUE)
                  IN  Real(mapping_value(k.gamma, kk))

\* BaseDDSketch::get_quantile_value(quantile), quantile = q_num / q_den.
\* rank = quantile * (count - 1) is the fraction rank_num / rank_den.
get_quantile_value(k, q_num, q_den) ==
    IF q_num < 0 \/ q_num > q_den \/ k.count = 0 THEN NaN
    ELSE LET rank_num == q_num * (k.count - WUnit)
             rank_den == q_den * WUnit
             neg_num == k.negative_store.count * q_den
             zero_num == k.zero_count * q_den
         IN  IF rank_num < neg_num
             THEN LET reversed_num == neg_num - rank_num - rank_den
                      kk == key_at_rank(k.negative_store, reversed_num, rank_den, FALSE)
                  IN  Real(-mapping_value(k.gamma, kk))
             ELSE IF rank_num < zero_num + neg_num
             THEN Real(0)
             ELSE LET kk == key_at_rank(k.store, rank_num - zero_num - neg_num,
                                        rank_den, TRUE)
                  IN  Real(mapping_value(k.gamma, kk))

\* mergeable that accepts every sketch
mergeable_always(k, other_sketch) == TRUE

mergeable(k, other_sketch) == k.gamma = other_sketch.gamma

\* BaseDDSketch::copy that leaves zero_count_ as it was
SketchCopy_no_zero(k, sketch) ==
    [k EXCEPT !.store = StoreCopy(k.store, sketch.store),
              !.negative_store = StoreCopy(k.negative_store, sketch.negative_store),
              !.min = sketch.min,
              !.max = sketch.max,
              !.count = sketch.count,
              !.sum = sketch.sum]

\* BaseDDSketch::copy that leaves min_ and max_ as they were
SketchCopy_no_min_max(k, sketch) ==
    [k EXCEPT !.store = StoreCopy(k.store, sketch.store),
              !.negative_store = StoreCopy(k.negative_store, sketch.negative_store),
              !.zero_count = sketch.zero_count,
              !.count = sketch.count,
              !.sum = sketch.sum]

\* BaseDDSketch::copy
SketchCopy(k, sketch) ==
    [k EXCEPT !.store = StoreCopy(k.store, sketch.store),
              !.negative_store = StoreCopy(k.negative_store, sketch.negative_store),
              !.zero_count = sketch.zero_count,
              !.min = sketch.min,
              !.max = sketch.max,
              !.count = sketch.count,
              !.sum = sketch.sum]

\* BaseDDSketch::merge that forgets the zero count of the other sketch
SketchMerge_no_zero(k, sketch) ==
    IF ~mergeable(k, sketch) THEN [k EXCEPT !.thrown = TRUE]
    ELSE IF sketch.count = 0 THEN k
    ELSE IF k.count = 0 THEN SketchCopy(k, sketch)
    ELSE [k EXCEPT !.store = StoreMerge(k.store, sketch.store),
                   !.negative_store =
                       StoreMerge(k.negative_store, sketch.negative_store),
                   !.count = k.count + sketch.count,
                   !.sum = k.sum + sketch.sum,
                   !.min = IF sketch.min < k.min THEN sketch.min ELSE k.min,
                   !.max = IF sketch.max > k.max THEN sketch.max ELSE k.max]

\* BaseDDSketch::merge that copies the argument whenever one of the two
\* sketches is empty
SketchMerge_copy_if_empty(k, sketch) ==
    IF ~mergeable(k, sketch) THEN [k EXCEPT !.thrown = TRUE]
    ELSE IF sketch.count = 0 \/ k.count = 0 THEN SketchCopy(k, sketch)
    ELSE [k EXCEPT !.store = StoreMerge(k.store, sketch.store),
                   !.negative_store =
                       StoreMerge(k.negative_store, sketch.negative_store),
                   !.zero_count = k.zero_count + sketch.zero_count,
                   !.count = k.count + sketch.count,
                   !.sum = k.sum + sketch.sum,
                   !.min = IF sketch.min < k.min THEN sketch.min ELSE k.min,
                   !.max = IF sketch.max > k.max THEN sketch.max ELSE k.max]

\* BaseDDSketch::merge
SketchMerge(k, sketch) ==
    IF ~mergeable(k, sketch) THEN [k EXCEPT !.thrown = TRUE]
    ELSE IF sketch.count = 0 THEN k
    ELSE IF k.count = 0 THEN SketchCopy(k, sketch)
    ELSE [k EXCEPT !.store = StoreMerge(k.store, sketch.store),
                   !.negative_store =
                       StoreMerge(k.negative_store, sketch.negative_store),
                   !.zero_count = k.zero_count + sketch.zero_count,
                   !.count = k.count + sketch.count,
                   !.sum = k.sum + sketch.sum,
                   !.min = IF sketch.min < k.min THEN sketch.min ELSE k.min,
                   !.max = IF sketch.max > k.max THEN sketch.max ELSE k.max]


(***************************************************************************)
(* The state                                                               *)
(***************************************************************************)
VARIABLES
    st,       \* the store under test
    added,    \* added[k]: the sum of the weights of the calls add(k, w)
    nAdds,    \* the number of add calls made
    unit,     \* TRUE while every add call had the weight 1.0
    other,    \* a second store, the argument of st.merge
    ref,      \* one store on which every add call made on st or on other
              \* was repeated, in the order of the calls
    merged,   \* TRUE once a merge was called with both operands non-empty
    sk,       \* the sketch under test, the receiver of the merges
    skOther,  \* a second sketch, the argument of sk.merge
    single,   \* one sketch on which every add call made on sk or on skOther
              \* was repeated, in the order of the calls
    values,   \* values[v]: the sum of the weights of the calls add(v, w)
    otherMerged, \* TRUE from sk.merge(skOther) until skOther is replaced
    mapping,  \* the KeyMapping under test: its class and its offset
    probe     \* the last value given to mapping.key, with the key returned

storeVars == <<st, added, other, ref>>
sketchVars == <<sk, skOther, single, values, otherMerged>>
mapVars == <<mapping, probe>>
vars == <<st, added, nAdds, unit, other, ref, merged,
          sk, skOther, single, values, otherMerged, mapping, probe>>

Keys == (-MaxKey)..MaxKey

\* the weights of store-level add calls: a fraction of 1.0, and 1.0
StoreWeights == {1, WUnit}

\* the stores a test can construct
StoreConfigs ==
    {NewStore("dense", 0, c) : c \in 1..MaxChunk}
        \cup {NewStore(k, b, c) : k \in {"lowest", "highest"},
                                  b \in 1..MaxBinLimit, c \in 1..MaxChunk}

RECURSIVE SumOver(_, _)
SumOver(f, S) ==
    IF S = {} THEN 0
    ELSE LET x == CHOOSE y \in S : TRUE IN f[x] + SumOver(f, S \ {x})

(***************************************************************************)
(* SpecStore: one store of any variant, filled by add calls                *)
(***************************************************************************)
InitStore ==
    /\ st \in StoreConfigs
    /\ added = [k \in Keys |-> 0]
    /\ nAdds = 0
    /\ mapping = << >>
    /\ probe = << >>
    /\ unit = TRUE
    /\ other = st
    /\ ref = st
    /\ merged = FALSE
    /\ sk = << >>
    /\ skOther = << >>
    /\ single = << >>
    /\ values = << >>
    /\ otherMerged = FALSE

\* store.add(key): the overload with the default weight 1.0
AddUnit ==
    /\ nAdds < MaxAdds
    /\ \E key \in Keys :
          /\ st' = StoreAdd(st, key, WUnit)
          /\ added' = [added EXCEPT ![key] = @ + WUnit]
    /\ nAdds' = nAdds + 1
    /\ UNCHANGED <<unit, other, ref, merged, sketchVars, mapVars>>

\* store.add(key, weight) with a positive weight other than 1.0
AddWeighted ==
    /\ nAdds < MaxAdds
    /\ \E key \in Keys, weight \in StoreWeights \ {WUnit} :
          /\ st' = StoreAdd(st, key, weight)
          /\ added' = [added EXCEPT ![key] = @ + weight]
    /\ nAdds' = nAdds + 1
    /\ unit' = FALSE
    /\ UNCHANGED <<other, ref, merged, sketchVars, mapVars>>

NextStore == AddUnit \/ AddWeighted

SpecStore == InitStore /\ [][NextStore]_vars

\* the keys that received an add call, and their extremes
AddedKeys == {k \in Keys : added[k] > 0}
MaxAdded == CHOOSE k \in AddedKeys : \A j \in AddedKeys : j <= k
MinAdded == CHOOSE k \in AddedKeys : \A j \in AddedKeys : j >= k

\* C6: after any sequence of add calls on a store of any variant, the sum of
\* its bins equals the sum of the weights passed to add.
C6_SumPreserved == sum(st.bins) = SumOver(added, Keys)

C6_Witness ==
    /\ st.is_collapsed
    /\ nAdds >= 3
    /\ ~unit
    /\ sum(st.bins) = SumOver(added, Keys)

\* C7: after unit-weight add calls on a dense store, the bin at index i holds
\* the number of add calls whose key was i + offset, every added key lies
\* inside the window and its counter is at index key - offset.
C7_DenseBins ==
    (st.kind = "dense" /\ unit) =>
        /\ \A i \in 0..(length(st) - 1) :
              /\ i + st.offset \in Keys => st.bins[i + 1] = added[i + st.offset]
              /\ i + st.offset \notin Keys => st.bins[i + 1] = 0
        /\ \A k \in AddedKeys :
              /\ k - st.offset \in 0..(length(st) - 1)
              /\ st.bins[k - st.offset + 1] = added[k]

C7_Witness ==
    /\ st.kind = "dense"
    /\ unit
    /\ Cardinality(AddedKeys) >= 3
    /\ st.offset < MinAdded
    /\ \E k \in AddedKeys : added[k] >= 2 * WUnit

\* the weight of the added keys v with max(v, floor_key) = key
NormalizedLow(key, floor_key) ==
    SumOver(added, {v \in Keys : Max2(v, floor_key) = key})

\* the weight of the added keys v with min(v, ceil_key) = key
NormalizedHigh(key, ceil_key) ==
    SumOver(added, {v \in Keys : Min2(v, ceil_key) = key})

\* C8: in a collapsing-lowest store with bin_limit B filled by unit-weight
\* adds of the keys V, every non-zero bin at index i holds the number of v in
\* V with max(v, max(V) - B + 1) = i + offset.
C8_CollapseLowest ==
    (st.kind = "lowest" /\ unit /\ nAdds > 0) =>
        \A i \in 0..(length(st) - 1) :
            st.bins[i + 1] # 0 =>
                st.bins[i + 1] =
                    NormalizedLow(i + st.offset, MaxAdded - st.bin_limit + 1)

C8_Witness ==
    /\ st.kind = "lowest"
    /\ unit
    /\ st.is_collapsed
    /\ st.bin_limit >= 2
    /\ Cardinality({k \in AddedKeys : k < MaxAdded - st.bin_limit + 1}) >= 2
    /\ st.bins[1] >= 2 * WUnit

\* C9: in a collapsing-highest store with bin_limit B filled by unit-weight
\* adds of the keys V, every non-zero bin at index i holds the number of v in
\* V with min(v, min(V) + B - 1) = i + offset.
C9_CollapseHighest ==
    (st.kind = "highest" /\ unit /\ nAdds > 0) =>
        \A i \in 0..(length(st) - 1) :
            st.bins[i + 1] # 0 =>
                st.bins[i + 1] =
                    NormalizedHigh(i + st.offset, MinAdded + st.bin_limit - 1)

C9_Witness ==
    /\ st.kind = "highest"
    /\ unit
    /\ st.is_collapsed
    /\ st.bin_limit >= 2
    /\ Cardinality({k \in AddedKeys : k > MinAdded + st.bin_limit - 1}) >= 2
    /\ st.bins[length(st)] >= 2 * WUnit

\* no store operation left the bounds of a BinList
NoFault == ~st.thrown /\ ~st.ub

(***************************************************************************)
(* SpecMerge: a store st that receives add and merge calls, the argument   *)
(* other of the merges (same variant, bin_limit and chunk_size), and the   *)
(* single store ref that received every add call of the two                *)
(***************************************************************************)
MergeKeys == (-MaxMergeKey)..MaxMergeKey

\* st.add(key, weight)
MAdd ==
    /\ nAdds < MaxMergeAdds
    /\ \E key \in MergeKeys, weight \in StoreWeights :
          /\ st' = StoreAdd(st, key, weight)
          /\ ref' = StoreAdd(ref, key, weight)
          /\ added' = [added EXCEPT ![key] = @ + weight]
          /\ unit' = (unit /\ weight = WUnit)
    /\ nAdds' = nAdds + 1
    /\ UNCHANGED <<other, merged, sketchVars, mapVars>>

\* other.add(key, weight)
MAddOther ==
    /\ nAdds < MaxMergeAdds
    /\ \E key \in MergeKeys, weight \in StoreWeights :
          /\ other' = StoreAdd(other, key, weight)
          /\ ref' = StoreAdd(ref, key, weight)
          /\ added' = [added EXCEPT ![key] = @ + weight]
          /\ unit' = (unit /\ weight = WUnit)
    /\ nAdds' = nAdds + 1
    /\ UNCHANGED <<st, merged, sketchVars, mapVars>>

\* st.merge(other); the next argument is a store constructed afresh
MMerge ==
    /\ st' = StoreMerge(st, other)
    /\ other' = NewStore(other.kind, other.bin_limit, other.chunk_size)
    /\ merged' = (merged \/ (st.count > 0 /\ other.count > 0))
    /\ UNCHANGED <<added, nAdds, unit, ref, sketchVars, mapVars>>

NextMerge == MAdd \/ MAddOther \/ MMerge

SpecMerge == InitStore /\ [][NextMerge]_vars

\* SpecDenseMerge: SpecMerge for the dense store alone
InitDense == InitStore /\ st.kind = "dense"

SpecDenseMerge == InitDense /\ [][NextMerge]_vars

\* C5: in every state reachable by add and merge calls on stores of the same
\* variant and bin_limit, the sum of a store's bins equals its count.
C5_SumIsCount == sum(st.bins) = st.count

\* C10: merging dense stores one after the other into a store yields the same
\* per-key bin contents and the same count as adding all values to one store.
C10_DenseMergeIsReplay ==
    (st.kind = "dense" /\ other.count = 0) =>
        /\ \A k \in Keys : Counter(st, k) = Counter(ref, k)
        /\ sum(st.bins) = sum(ref.bins)
        /\ st.count = ref.count

C10_Witness ==
    /\ st.kind = "dense"
    /\ other.count = 0
    /\ merged
    /\ Cardinality(AddedKeys) >= 3
    /\ length(st) > st.chunk_size
    /\ st.count = SumOver(added, Keys)

\* C11: after collapsing-lowest stores with the same bin_limit were merged,
\* the receiver holds the other stores' counters: what lay below the kept
\* keys in its lowest bin, every other key in its own bin, so each non-zero
\* bin at index i holds the number of values v of the union with
\* max(v, max(V) - bin_limit + 1) = i + offset.
C11_MergeLowest ==
    (st.kind = "lowest" /\ unit /\ other.count = 0 /\ nAdds > 0) =>
        \A i \in 0..(length(st) - 1) :
            st.bins[i + 1] # 0 =>
                st.bins[i + 1] =
                    NormalizedLow(i + st.offset, MaxAdded - st.bin_limit + 1)

\* C12: after collapsing-highest stores with the same bin_limit were merged,
\* the receiver holds the other stores' counters: what lay above the kept
\* keys in its last bin, every other key in its own bin, so each non-zero bin
\* at index i holds the number of values v of the union with
\* min(v, min(V) + bin_limit - 1) = i + offset.
C12_MergeHighest ==
    (st.kind = "highest" /\ unit /\ other.count = 0 /\ nAdds > 0) =>
        \A i \in 0..(length(st) - 1) :
            st.bins[i + 1] # 0 =>
                st.bins[i + 1] =
                    NormalizedHigh(i + st.offset, MinAdded + st.bin_limit - 1)

NoFaultMerge == NoFault /\ ~other.thrown /\ ~other.ub
(***************************************************************************)
(* SpecSketch: a sketch sk that receives add and merge calls, the argument *)
(* skOther of the merges (built like sk), and the single sketch that       *)
(* received every add call of the two.  The calls on skOther follow the    *)
(* calls on sk, so single has seen the adds of sk and then the adds of     *)
(* skOther.  After sk.merge(skOther), skOther is kept until it is replaced *)
(* by a sketch constructed afresh.                                         *)
(***************************************************************************)
Values == (-MaxValue)..MaxValue

\* the weight of the add calls of SpecSketch: add(val) has the weight 1.0
SketchWeights == {WUnit}

QNums == 0..QDen

\* the stores the sketch classes construct: DenseStore(),
\* CollapsingLowestDenseStore(bin_limit), CollapsingHighestDenseStore(bin_limit),
\* each with the default chunk size
SketchConfigs ==
    {NewStore("dense", 0, SketchChunk)}
        \cup {NewStore(k, b, SketchChunk) : k \in {"lowest", "highest"},
                                           b \in 1..MaxBinLimit}

\* BaseDDSketch(mapping, store, negative_store); the two stores own the
\* deques id1 and id2
SketchOf(s, id1, id2) ==
    NewSketch(Gamma, [s EXCEPT !.id = id1], [s EXCEPT !.id = id2])

\* a store whose deque is also the deque of a store of the sketch w sees the
\* elements that w wrote
SyncStore(s, w) ==
    IF s.id = w.store.id THEN [s EXCEPT !.bins = w.store.bins]
    ELSE IF s.id = w.negative_store.id THEN [s EXCEPT !.bins = w.negative_store.bins]
    ELSE s

Sync(k, w) ==
    [k EXCEPT !.store = SyncStore(k.store, w),
              !.negative_store = SyncStore(k.negative_store, w)]

InitSketch ==
    /\ \E s \in SketchConfigs :
          /\ sk = SketchOf(s, 1, 2)
          /\ skOther = SketchOf(s, 3, 4)
          /\ single = SketchOf(s, 5, 6)
    /\ values = [v \in Values |-> 0]
    /\ otherMerged = FALSE
    /\ nAdds = 0
    /\ mapping = << >>
    /\ probe = << >>
    /\ unit = TRUE
    /\ merged = FALSE
    /\ st = << >>
    /\ added = << >>
    /\ other = << >>
    /\ ref = << >>

\* sk.add(val, weight)
SAdd ==
    /\ nAdds < MaxSketchAdds
    /\ skOther.count = 0 \/ otherMerged
    /\ \E val \in Values, weight \in SketchWeights :
          /\ sk' = SketchAdd(sk, val, weight)
          /\ skOther' = Sync(skOther, sk')
          /\ single' = SketchAdd(single, val, weight)
          /\ values' = [values EXCEPT ![val] = @ + weight]
          /\ unit' = (unit /\ weight = WUnit)
    /\ nAdds' = nAdds + 1
    /\ UNCHANGED <<merged, otherMerged, storeVars, mapVars>>

\* skOther.add(val, weight)
SAddOther ==
    /\ nAdds < MaxSketchAdds
    /\ ~otherMerged
    /\ \E val \in Values, weight \in SketchWeights :
          /\ skOther' = SketchAdd(skOther, val, weight)
          /\ sk' = Sync(sk, skOther')
          /\ single' = SketchAdd(single, val, weight)
          /\ values' = [values EXCEPT ![val] = @ + weight]
          /\ unit' = (unit /\ weight = WUnit)
    /\ nAdds' = nAdds + 1
    /\ UNCHANGED <<merged, otherMerged, storeVars, mapVars>>

\* sk.merge(skOther)
SMerge ==
    /\ ~otherMerged
    /\ sk' = SketchMerge(sk, skOther)
    /\ skOther' = Sync(skOther, sk')
    /\ otherMerged' = TRUE
    /\ merged' = (merged \/ (sk.count > 0 /\ skOther.count > 0))
    /\ UNCHANGED <<single, values, nAdds, unit, storeVars, mapVars>>

\* a sketch constructed afresh becomes the next argument
SNewOther ==
    /\ otherMerged
    /\ skOther' = SketchOf(NewStore(skOther.store.kind, skOther.store.bin_limit,
                                    skOther.store.chunk_size), 3, 4)
    /\ otherMerged' = FALSE
    /\ UNCHANGED <<sk, single, values, nAdds, unit, merged, storeVars, mapVars>>

NextSketch == SAdd \/ SAddOther \/ SMerge \/ SNewOther

SpecSketch == InitSketch /\ [][NextSketch]_vars

(***************************************************************************)
(* SpecQuantile: the sketch single alone, filled by add calls and queried. *)
(***************************************************************************)
QValues == (-MaxQValue)..MaxQValue

InitQuantile ==
    /\ \E s \in SketchConfigs :
          /\ sk = SketchOf(s, 1, 2)
          /\ skOther = SketchOf(s, 3, 4)
          /\ single = SketchOf(s, 5, 6)
    /\ values = [v \in QValues |-> 0]
    /\ otherMerged = FALSE
    /\ nAdds = 0
    /\ mapping = << >>
    /\ probe = << >>
    /\ unit = TRUE
    /\ merged = FALSE
    /\ st = << >>
    /\ added = << >>
    /\ other = << >>
    /\ ref = << >>

\* single.add(val, weight)
QAdd ==
    /\ nAdds < MaxQAdds
    /\ \E val \in QValues, weight \in SketchWeights :
          /\ single' = SketchAdd(single, val, weight)
          /\ values' = [values EXCEPT ![val] = @ + weight]
          /\ unit' = (unit /\ weight = WUnit)
    /\ nAdds' = nAdds + 1
    /\ UNCHANGED <<sk, skOther, merged, otherMerged, storeVars, mapVars>>

SpecQuantile == InitQuantile /\ [][QAdd]_vars

\* the number of values inserted, when every weight was 1.0
SetMax(S) == CHOOSE x \in S : \A y \in S : y <= x
SetMin(S) == CHOOSE x \in S : \A y \in S : y >= x

NumInserted == SumOver(values, DOMAIN values) \div WUnit

\* DataSet::quantile(q_num / QDen): the element of the 0-based rank
\* floor(q * (n - 1)) of the inserted values in ascending order
RECURSIVE ElementAt(_, _, _)
ElementAt(v, running_before, item_rank) ==
    LET running == running_before + values[v] \div WUnit
    IN  IF running > item_rank \/ v >= SetMax(DOMAIN values) THEN v
        ELSE ElementAt(v + 1, running, item_rank)

DataQuantile(q_num) ==
    ElementAt(SetMin(DOMAIN values), 0, (q_num * (NumInserted - 1)) \div QDen)

\* |x - y| <= alpha * |x| for y = y_num / (1 + Gamma), alpha = (Gamma - 1) / (Gamma + 1)
WithinAlpha(x, y_num) == Abs((1 + Gamma) * x - y_num) <= (Gamma - 1) * Abs(x)

PosKeys == {mapping_key(Gamma, v) : v \in {w \in DOMAIN values : w > 0 /\ values[w] > 0}}
NegKeys == {mapping_key(Gamma, -v) : v \in {w \in DOMAIN values : w < 0 /\ values[w] > 0}}

\* the key of the bin that holds the key k in a store that was given the keys K
BinKey(s, k, K) ==
    CASE s.kind = "dense"   -> k
      [] s.kind = "lowest"  -> Max2(k, SetMax(K) - s.bin_limit + 1)
      [] s.kind = "highest" -> Min2(k, SetMin(K) + s.bin_limit - 1)

\* C2: for a sketch filled by unit-weight adds and every q in [0, 1],
\* get_quantile_value(q) answers from the bin that holds the inserted value
\* of rank floor(q * (n - 1)): the negative store's bin, negated, for a value
\* below -min_possible, 0 in the zero band, the positive store's bin otherwise.
C2_AnswersFromRankBin ==
    (unit /\ nAdds > 0) =>
        \A q_num \in QNums :
            LET x == DataQuantile(q_num)
                y == get_quantile_value(single, q_num, QDen)
            IN  y = IF Half(x) < -min_possible
                    THEN Real(-mapping_value(Gamma,
                             BinKey(single.negative_store,
                                    mapping_key(Gamma, -x), NegKeys)))
                    ELSE IF Half(x) <= min_possible
                    THEN Real(0)
                    ELSE Real(mapping_value(Gamma,
                             BinKey(single.store, mapping_key(Gamma, x), PosKeys)))

C2_Witness ==
    /\ unit
    /\ nAdds >= 4
    /\ single.negative_store.count > 0
    /\ single.zero_count > 0
    /\ single.store.count >= 2 * WUnit
    /\ get_quantile_value(single, 0, QDen).num < 0
    /\ get_quantile_value(single, 2, QDen).num = 0
    /\ get_quantile_value(single, QDen, QDen).num > 0

\* the keys of the window of a store
Window(s) == s.offset..(s.offset + length(s) - 1)

SameCounters(s, t) ==
    \A k \in Window(s) \cup Window(t) : Counter(s, k) = Counter(t, k)

C4_MergeKeepsOther == [][(SMerge \/ SAdd) => skOther' = skOther]_vars

\* skOther was copied into the empty sk, and sk then received an add call
C4_Witness ==
    /\ otherMerged
    /\ ~merged
    /\ skOther.store.count > 0
    /\ skOther.negative_store.count > 0
    /\ sk.count > skOther.count

(***************************************************************************)
(* key_at_rank on the stores of SpecStore                                  *)
(***************************************************************************)
\* the ranks asked, as numerators over RankDen
RankNums == (-RankDen)..((MaxAdds + 1) * RankDen)

\* the cumulative count over the bins with key <= K
CumCount(s, K) == Accumulate(s.bins, 0, K - s.offset + 1)

\* the cumulative count at K is > rank (lower) or >= rank + 1 (not lower)
RankReached(s, K, rank_num, rank_den, lower) ==
    IF lower
    THEN CumCount(s, K) * rank_den > rank_num * WUnit
    ELSE CumCount(s, K) * rank_den >= (rank_num + rank_den) * WUnit

\* the keys of the window at which the rank is reached
KeysReaching(s, rank_num, rank_den, lower) ==
    {K \in Window(s) : RankReached(s, K, rank_num, rank_den, lower)}

\* C13: key_at_rank(r, lower) returns the smallest key of the window whose
\* cumulative count is > r (lower) or >= r + 1 (not lower), and max_key when
\* no key of the window reaches the rank; with counts [1, 1] at the keys
\* a < b, lower = true maps [0, 1) to a and [1, 2) to b, and lower = false
\* maps (-1, 0] to a and (0, 1] to b.
C13_KeyAtRank ==
    /\ \A rank_num \in RankNums, lower \in BOOLEAN :
          LET reaching == KeysReaching(st, rank_num, RankDen, lower)
          IN  key_at_rank(st, rank_num, RankDen, lower) =
                  IF reaching = {} THEN st.max_key ELSE SetMin(reaching)
    /\ \A a \in Keys, b \in Keys :
          (/\ a < b
           /\ st.kind = "dense"
           /\ AddedKeys = {a, b}
           /\ added[a] = WUnit
           /\ added[b] = WUnit) =>
              \A rank_num \in RankNums :
                  /\ (0 <= rank_num /\ rank_num < RankDen) =>
                        key_at_rank(st, rank_num, RankDen, TRUE) = a
                  /\ (RankDen <= rank_num /\ rank_num < 2 * RankDen) =>
                        key_at_rank(st, rank_num, RankDen, TRUE) = b
                  /\ (-RankDen < rank_num /\ rank_num <= 0) =>
                        key_at_rank(st, rank_num, RankDen, FALSE) = a
                  /\ (0 < rank_num /\ rank_num <= RankDen) =>
                        key_at_rank(st, rank_num, RankDen, FALSE) = b

C13_Witness ==
    /\ Cardinality(AddedKeys) >= 3
    /\ ~unit
    /\ st.bins[1] = 0
    /\ key_at_rank(st, 1, RankDen, TRUE) # key_at_rank(st, 1, RankDen, FALSE)
    /\ key_at_rank(st, MaxAdds * RankDen, RankDen, TRUE) = st.max_key
    /\ KeysReaching(st, MaxAdds * RankDen, RankDen, TRUE) = {}

(***************************************************************************)
(* The scalars of the sketches of SpecSketch                               *)
(***************************************************************************)
\* count_ = store_.count() + negative_store_.count() + zero_count_
CountIsSplit(k) == k.count = k.store.count + k.negative_store.count + k.zero_count

\* C14: in every state of a sketch reachable by add and merge calls, a merge
\* into an empty sketch and a merge of an empty sketch included, the total
\* count equals the positive store's count plus the negative store's count
\* plus zero_count.
C14_CountIsSplit == CountIsSplit(sk) /\ CountIsSplit(skOther) /\ CountIsSplit(single)

\* sk, holding values of its own, merged a non-empty argument, and holds
\* values of the three kinds
C14_Witness ==
    /\ merged
    /\ otherMerged
    /\ sk.zero_count >= 2 * WUnit
    /\ sk.store.count > 0
    /\ sk.negative_store.count > 0
    /\ skOther.zero_count > 0
    /\ skOther.count < sk.count
    /\ CountIsSplit(sk)

(***************************************************************************)
(* SpecWeighted: the sketch sk receives add calls with weights of all      *)
(* kinds (integer, fractional, not positive) and merges sketches that hold *)
(* one value; the sketch single receives add(val) n times for each         *)
(* add(val, n) on sk.  skOther stays the empty sketch it was constructed.  *)
(***************************************************************************)
WValues == (-MaxWValue)..MaxWValue

InitWeighted ==
    /\ \E s \in SketchConfigs :
          /\ sk = SketchOf(s, 1, 2)
          /\ skOther = SketchOf(s, 3, 4)
          /\ single = SketchOf(s, 5, 6)
    /\ values = [v \in WValues |-> 0]
    /\ otherMerged = FALSE
    /\ nAdds = 0
    /\ mapping = << >>
    /\ probe = << >>
    /\ unit = TRUE
    /\ merged = FALSE
    /\ st = << >>
    /\ added = << >>
    /\ other = << >>
    /\ ref = << >>

\* n successive calls add(val)
RECURSIVE AddTimes(_, _, _)
AddTimes(k, val, n) ==
    IF n = 0 THEN k ELSE AddTimes(SketchAdd(k, val, WUnit), val, n - 1)

\* sk.add(val, n) for a positive integer n
WAdd ==
    /\ nAdds < MaxWAdds
    /\ \E val \in WValues, n \in 1..MaxWeight :
          /\ sk' = SketchAdd(sk, val, n * WUnit)
          /\ single' = AddTimes(single, val, n)
          /\ values' = [values EXCEPT ![val] = @ + n * WUnit]
          /\ unit' = (unit /\ n = 1)
    /\ nAdds' = nAdds + 1
    /\ UNCHANGED <<skOther, merged, otherMerged, storeVars, mapVars>>

\* sk.add(val, weight) for the weight 1/WUnit; single receives the same call
WAddFraction ==
    /\ nAdds < MaxWAdds
    /\ WUnit > 1
    /\ \E val \in WValues :
          /\ sk' = SketchAdd(sk, val, 1)
          /\ single' = SketchAdd(single, val, 1)
          /\ values' = [values EXCEPT ![val] = @ + 1]
    /\ unit' = FALSE
    /\ nAdds' = nAdds + 1
    /\ UNCHANGED <<skOther, merged, otherMerged, storeVars, mapVars>>

\* the weights 0.0 and -1.0
InvalidWeights == {0, -WUnit}

\* sk.add(val, weight) for a weight that is not positive
WAddInvalid ==
    /\ \E val \in WValues, weight \in InvalidWeights :
          sk' = SketchAdd(sk, val, weight)
    /\ UNCHANGED <<skOther, single, values, unit, nAdds, merged, otherMerged,
                   storeVars, mapVars>>

\* a sketch is constructed, receives add(val, weight), and sk merges it
WMerge ==
    /\ nAdds < MaxWAdds
    /\ \E val \in WValues, weight \in {1, WUnit} :
          /\ sk' = SketchMerge(sk, SketchAdd(skOther, val, weight))
          /\ values' = [values EXCEPT ![val] = @ + weight]
    /\ merged' = TRUE
    /\ nAdds' = nAdds + 1
    /\ UNCHANGED <<skOther, single, unit, otherMerged, storeVars, mapVars>>

NextWeighted == WAdd \/ WAddFraction \/ WAddInvalid \/ WMerge

SpecWeighted == InitWeighted /\ [][NextWeighted]_vars

\* the values sk was given, each with the total weight it was given
WeightOf == values
ValueTimesWeight == [v \in WValues |-> v * values[v]]

\* C15: after add calls (v_i, w_i) with w_i > 0 and merges of non-empty
\* sketches, num_values() is the sum of the weights, sum() is the sum of the
\* products v_i * w_i over the calls on the sketch and on the sketches it
\* merged, and avg() is sum() / num_values().
C15_CountSumAvg ==
    /\ num_values(sk) = SumOver(WeightOf, WValues)
    /\ sketch_sum(sk) = SumOver(ValueTimesWeight, WValues)
    /\ avg(sk) = [num |-> SumOver(ValueTimesWeight, WValues),
                  den |-> SumOver(WeightOf, WValues)]

\* weights 2.0 and 0.5 were added, a sketch was merged, the sum is not zero
\* and differs from the sum the same values would have with weight 1.0
C15_Witness ==
    /\ merged
    /\ ~unit
    /\ nAdds = MaxWAdds
    /\ sk.count % WUnit # 0
    /\ \E v \in WValues : v # 0 /\ values[v] >= 2 * WUnit
    /\ sketch_sum(sk) # 0
    /\ avg(sk).den > WUnit

\* the state of a sketch: its two stores and its scalars, without the identity
\* of the deques and without the record of a thrown exception
SketchState(k) ==
    [k EXCEPT !.store.id = 0, !.negative_store.id = 0, !.thrown = FALSE]

WQNums == (-1)..(QDen + 1)

\* C17: get_quantile_value(q) returns NaN when q < 0, when q > 1 and when the
\* sketch has count 0, and a number in every other case; it throws in no case
\* (the result is always a value).
C17_NaNIffOutsideOrEmpty ==
    \A q_num \in WQNums :
        LET quantile_value == get_quantile_value(sk, q_num, QDen)
        IN  /\ quantile_value.nan \in BOOLEAN
            /\ quantile_value.num \in Int
            /\ quantile_value.nan <=> (q_num < 0 \/ q_num > QDen \/ sk.count = 0)

\* a sketch whose count is below 1.0, so that the rank q * (count - 1) is
\* negative, and whose negative store is empty: numbers for q in [0, 1]
C17_Witness ==
    /\ sk.count > 0
    /\ sk.count < WUnit
    /\ sk.negative_store.count = 0
    /\ get_quantile_value(sk, -1, QDen) = NaN
    /\ get_quantile_value(sk, QDen + 1, QDen) = NaN
    /\ \A q_num \in QNums : ~get_quantile_value(sk, q_num, QDen).nan

\* C18: add(val, weight) with weight <= 0 throws the illegal-argument
\* exception and leaves the stores, zero_count, count, sum, min and max as
\* they were.
C18_InvalidWeightRejected ==
    \A val \in WValues, weight \in InvalidWeights :
        LET before == [sk EXCEPT !.thrown = FALSE]
            after == SketchAdd(before, val, weight)
        IN  /\ after.thrown
            /\ [after EXCEPT !.thrown = FALSE] = before

\* an add with a weight that is not positive was made on a sketch that holds
\* values in both stores
C18_Witness ==
    /\ sk.thrown
    /\ sk.store.count > 0
    /\ sk.negative_store.count > 0
    /\ sk.count = SumOver(values, WValues)

\* the store t is the store s with weight more in its bins and its count; in a
\* dense store, which never folds bins, the counter of the key has gained it
GainsWeight(s, t, key, weight) ==
    /\ t.count = s.count + weight
    /\ sum(t.bins) = sum(s.bins) + weight
    /\ s.kind = "dense" => Counter(t, key) = Counter(s, key) + weight

\* t is the sketch k after the successful call k.add(val, weight): one of
\* store, negative_store and zero_count gains the weight and the two others
\* are as they were
OneHolderGains(k, t, val, weight) ==
    IF Half(val) > min_possible
    THEN /\ GainsWeight(k.store, t.store, mapping_key(k.gamma, val), weight)
         /\ t.negative_store = k.negative_store
         /\ t.zero_count = k.zero_count
    ELSE IF Half(val) < -min_possible
    THEN /\ GainsWeight(k.negative_store, t.negative_store,
                        mapping_key(k.gamma, -val), weight)
         /\ t.store = k.store
         /\ t.zero_count = k.zero_count
    ELSE /\ t.zero_count = k.zero_count + weight
         /\ t.store = k.store
         /\ t.negative_store = k.negative_store

\* a step of SpecWeighted in which sk and single received an add call
HolderStep ==
    single' # single =>
        \A val \in WValues :
            values'[val] # values[val] =>
                OneHolderGains(sk, sk', val, values'[val] - values[val])

\* C32: every successful sketch add(v, w) changes exactly one of the three
\* holders of counters: the positive store when v > min_possible, the negative
\* store when v < -min_possible, zero_count otherwise; the two others are
\* unchanged and the changed one gains exactly w.
C32_OneHolderGains == [][HolderStep]_vars

\* a sketch that received a negative value and a zero, by add calls alone
C32_Witness ==
    /\ ~merged
    /\ sk.negative_store.count > 0
    /\ sk.zero_count > 0
    /\ sk.store.count = 0
    /\ sk.count = sk.negative_store.count + sk.zero_count
    /\ \E val \in WValues : val < 0 /\ values[val] = sk.negative_store.count

\* the values that sk was given, by add calls and by the sketches it merged
AddedValues == {val \in WValues : values[val] > 0}

\* min_ is the smallest value given
MinIsSmallest == sk.count > 0 => sk.min = Half(SetMin(AddedValues))

\* C33: the sketch's min starts at +infinity and its max at -infinity, so that
\* after any non-empty sequence of add and merge calls min is the smallest
\* value ever added and max is the largest value ever added, including when
\* all values are negative.
C33_MinMaxOfAdded ==
    sk.count > 0 =>
        /\ sk.min = Half(SetMin(AddedValues))
        /\ sk.max = Half(SetMax(AddedValues))

\* a sketch that was given negative values only and whose max_ is still the
\* positive number it was constructed with
C33_MaxNotAdded ==
    /\ sk.count > 0
    /\ \A val \in AddedValues : val < 0
    /\ sk.max = kRealMin
    /\ sk.max > 0

\* the branch of get_quantile_value that answers the quantile q_num / q_den
\* of a sketch that holds values
QueriedStore(k, q_num, q_den) ==
    LET rank_num == q_num * (k.count - WUnit)
        neg_num == k.negative_store.count * q_den
        zero_num == k.zero_count * q_den
    IN  IF rank_num < neg_num THEN "negative"
        ELSE IF rank_num < zero_num + neg_num THEN "zero"
        ELSE "positive"

\* the key that get_quantile_value obtains from key_at_rank of store_
PositiveKey(k, q_num, q_den) ==
    key_at_rank(k.store,
                q_num * (k.count - WUnit) - k.zero_count * q_den
                    - k.negative_store.count * q_den,
                q_den * WUnit, TRUE)

\* the key that get_quantile_value obtains from key_at_rank of negative_store_
NegativeKey(k, q_num, q_den) ==
    key_at_rank(k.negative_store,
                k.negative_store.count * q_den - q_num * (k.count - WUnit)
                    - q_den * WUnit,
                q_den * WUnit, FALSE)

\* the store holds weight, and the key is one of its keys with a counter
KeyOfStore(s, key) ==
    /\ s.count > 0
    /\ s.min_key <= key
    /\ key <= s.max_key
    /\ Counter(s, key) # 0

SafeQuery(k, q_num, q_den) ==
    CASE QueriedStore(k, q_num, q_den) = "negative" ->
             KeyOfStore(k.negative_store, NegativeKey(k, q_num, q_den))
      [] QueriedStore(k, q_num, q_den) = "positive" ->
             KeyOfStore(k.store, PositiveKey(k, q_num, q_den))
      [] OTHER -> TRUE

\* C37: for every non-empty sketch reachable by add calls with positive
\* weights (fractional and below 1 included) and every q in [0, 1],
\* get_quantile_value queries a store only if that store is non-empty, and
\* the key it obtains from key_at_rank lies in [min_key, max_key] of that
\* store and has a non-zero counter.
C37_QuantileFromHeldKey ==
    (sk.count > 0 /\ ~merged) =>
        \A q_num \in QNums : SafeQuery(sk, q_num, QDen)

\* a sketch that holds the weight 1/WUnit of one positive value answers the
\* quantile 1/2 from its negative store, which is as it was constructed, and
\* obtains the max_key the constructor gave it
C37_AnswerFromEmptyStore ==
    /\ ~merged
    /\ sk.count = 1
    /\ sk.store.count = 1
    /\ sk.negative_store.count = 0
    /\ length(sk.negative_store) = 0
    /\ QueriedStore(sk, 2, QDen) = "negative"
    /\ NegativeKey(sk, 2, QDen) = IndexMin

\* the queries of a sketch whose count is at least 1.0 are answered from a
\* key that its store holds
SafeWhenCountAtLeastOne ==
    (sk.count >= WUnit /\ ~merged) =>
        \A q_num \in QNums : SafeQuery(sk, q_num, QDen)

\* get_quantile_value(q1) <= get_quantile_value(q2) for all q1 <= q2
Monotone(k) ==
    \A q1 \in QNums, q2 \in QNums :
        q1 <= q2 => get_quantile_value(k, q1, QDen).num
                        <= get_quantile_value(k, q2, QDen).num

\* C38: for every non-empty sketch and all q1 <= q2 in [0, 1],
\* get_quantile_value(q1) <= get_quantile_value(q2).
C38_QuantileMonotone == sk.count > 0 => Monotone(sk)

\* a sketch that holds the weight 1/WUnit of one positive value answers that
\* value for q = 0 and 0 for q = 1
C38_LaterQuantileSmaller ==
    /\ sk.count = 1
    /\ sk.store.count = 1
    /\ get_quantile_value(sk, 0, QDen).num > 0
    /\ get_quantile_value(sk, QDen, QDen).num = 0

\* the quantiles of a sketch whose count is at least 1.0 are monotone
MonotoneWhenCountAtLeastOne == sk.count >= WUnit => Monotone(sk)

(***************************************************************************)
(* SpecGamma: two sketches whose mappings were constructed with gammas     *)
(* that may differ; both receive add calls, and sk merges skOther once.    *)
(***************************************************************************)
Gammas == {Gamma, Gamma + 1}

GValues == (-MaxGValue)..MaxGValue

InitGamma ==
    /\ \E s \in SketchConfigs, g1 \in Gammas, g2 \in Gammas :
          /\ sk = NewSketch(g1, [s EXCEPT !.id = 1], [s EXCEPT !.id = 2])
          /\ skOther = NewSketch(g2, [s EXCEPT !.id = 3], [s EXCEPT !.id = 4])
          /\ single = SketchOf(s, 5, 6)
    /\ values = [v \in GValues |-> 0]
    /\ otherMerged = FALSE
    /\ nAdds = 0
    /\ mapping = << >>
    /\ probe = << >>
    /\ unit = TRUE
    /\ merged = FALSE
    /\ st = << >>
    /\ added = << >>
    /\ other = << >>
    /\ ref = << >>

\* sk.add(val)
GAdd ==
    /\ nAdds < MaxGammaAdds
    /\ \E val \in GValues :
          /\ sk' = SketchAdd(sk, val, WUnit)
          /\ skOther' = Sync(skOther, sk')
    /\ nAdds' = nAdds + 1
    /\ UNCHANGED <<single, values, unit, merged, otherMerged, storeVars, mapVars>>

\* skOther.add(val)
GAddOther ==
    /\ nAdds < MaxGammaAdds
    /\ \E val \in GValues :
          /\ skOther' = SketchAdd(skOther, val, WUnit)
          /\ sk' = Sync(sk, skOther')
    /\ nAdds' = nAdds + 1
    /\ UNCHANGED <<single, values, unit, merged, otherMerged, storeVars, mapVars>>

\* sk.merge(skOther)
GMerge ==
    /\ ~otherMerged
    /\ sk' = SketchMerge(sk, skOther)
    /\ skOther' = Sync(skOther, sk')
    /\ otherMerged' = TRUE
    /\ merged' = TRUE
    /\ UNCHANGED <<single, values, nAdds, unit, storeVars, mapVars>>

NextGamma == GAdd \/ GAddOther \/ GMerge

SpecGamma == InitGamma /\ [][NextGamma]_vars

\* C19: sk.merge(skOther) throws the unequal-parameters exception exactly
\* when the gammas of the two mappings differ, which is when mergeable is
\* false; it then changes neither sk nor skOther; with equal gammas it does
\* not throw.
C19_UnequalGammaRejected ==
    LET before == [sk EXCEPT !.thrown = FALSE]
        after == SketchMerge(before, skOther)
    IN  /\ after.thrown <=> (sk.gamma # skOther.gamma)
        /\ mergeable(sk, skOther) <=> (sk.gamma = skOther.gamma)
        /\ (sk.gamma # skOther.gamma) =>
              /\ [after EXCEPT !.thrown = FALSE] = before
              /\ Sync(skOther, after) = skOther

\* the merge of two non-empty sketches with different gammas was attempted
C19_Witness ==
    /\ otherMerged
    /\ sk.thrown
    /\ sk.gamma # skOther.gamma
    /\ sk.count > 0
    /\ skOther.count > 0
    /\ sk.store.count > 0
    /\ skOther.negative_store.count > 0

\* C20: sk.merge(skOther) with an empty skOther leaves sk unchanged: both
\* stores (bins, offset, min_key, max_key, count, is_collapsed) and
\* zero_count, count, sum, min and max are as before.
C20_MergeEmptyIsNoOp ==
    skOther.count = 0 =>
        LET after == SketchMerge(sk, skOther)
        IN  [after EXCEPT !.thrown = sk.thrown] = sk

\* an empty sketch with the same gamma was merged into a sketch with a
\* collapsed store, values in both stores and zeros
C20_Witness ==
    /\ otherMerged
    /\ skOther.count = 0
    /\ sk.gamma = skOther.gamma
    /\ ~sk.thrown
    /\ sk.store.is_collapsed
    /\ sk.negative_store.count > 0
    /\ sk.count = MaxGammaAdds * WUnit

\* C21: sk.merge(skOther) with an empty sk and a non-empty skOther of the same
\* gamma makes sk equal to skOther: both stores have the bins, offset, min_key,
\* max_key and count of skOther's stores, zero_count, count, sum, min and max
\* are those of skOther, and every quantile query answers alike.
C21_MergeIntoEmptyIsCopy ==
    (sk.count = 0 /\ skOther.count > 0 /\ mergeable(sk, skOther)) =>
        LET after == SketchMerge(sk, skOther)
        IN  /\ SketchState(after) = SketchState(skOther)
            /\ \A q_num \in WQNums :
                  get_quantile_value(after, q_num, QDen)
                      = get_quantile_value(skOther, q_num, QDen)

\* all values were added to skOther, with values in both stores and a
\* collapsed store, and the empty sk then merged it
C21_Witness ==
    /\ otherMerged
    /\ ~sk.thrown
    /\ skOther.count = MaxGammaAdds * WUnit
    /\ sk.count = skOther.count
    /\ skOther.store.is_collapsed
    /\ skOther.negative_store.count > 0
    /\ SketchState(sk) = SketchState(skOther)

(***************************************************************************)
(* SpecStores: SpecMerge with fewer add calls.  st and other receive add   *)
(* calls, ref receives them all, and st merges other.  The invariants of   *)
(* the three stores follow.                                                *)
(***************************************************************************)
\* st.add(key, weight)
BAdd ==
    /\ nAdds < MaxStoresAdds
    /\ \E key \in MergeKeys, weight \in StoreWeights :
          /\ st' = StoreAdd(st, key, weight)
          /\ ref' = StoreAdd(ref, key, weight)
          /\ added' = [added EXCEPT ![key] = @ + weight]
          /\ unit' = (unit /\ weight = WUnit)
    /\ nAdds' = nAdds + 1
    /\ UNCHANGED <<other, merged, sketchVars, mapVars>>

\* other.add(key, weight)
BAddOther ==
    /\ nAdds < MaxStoresAdds
    /\ \E key \in MergeKeys, weight \in StoreWeights :
          /\ other' = StoreAdd(other, key, weight)
          /\ ref' = StoreAdd(ref, key, weight)
          /\ added' = [added EXCEPT ![key] = @ + weight]
          /\ unit' = (unit /\ weight = WUnit)
    /\ nAdds' = nAdds + 1
    /\ UNCHANGED <<st, merged, sketchVars, mapVars>>

NextStores == BAdd \/ BAddOther \/ MMerge

SpecStores == InitStore /\ [][NextStores]_vars

\* bins().has_only_zeros() is true if and only if count() is 0
EmptyIffZero(s) == has_only_zeros(s.bins) <=> (s.count = 0)

\* C22: for every store variant, in every state reachable by add calls with
\* positive weights and merge calls, the bins hold only zeros if and only if
\* the count of the store is 0.
C22_EmptyIffZero == EmptyIffZero(st) /\ EmptyIffZero(other) /\ EmptyIffZero(ref)

\* a collapsed store with bins, some of them zero, that merged a store
C22_Witness ==
    /\ merged
    /\ st.is_collapsed
    /\ st.count > 0
    /\ ~has_only_zeros(st.bins)
    /\ \E i \in 1..Len(st.bins) : st.bins[i] = 0
    /\ other.count = 0
    /\ has_only_zeros(other.bins)

\* the bins of a collapsing store are at most bin_limit long
WithinBinLimit(s) == s.kind # "dense" => length(s) <= s.bin_limit

\* C23: a collapsing store constructed with bin_limit >= 1 never has more than
\* bin_limit bins, in any state reachable by add calls and by merge calls with
\* stores of the same bin_limit, however far apart the keys are.
C23_LengthWithinBinLimit ==
    WithinBinLimit(st) /\ WithinBinLimit(other) /\ WithinBinLimit(ref)

\* a collapsing store whose keys spread over more than bin_limit bins, after
\* a merge, with its bins at the limit
C23_Witness ==
    /\ st.kind # "dense"
    /\ merged
    /\ SetMax(AddedKeys) - SetMin(AddedKeys) + 1 > st.bin_limit
    /\ length(st) = st.bin_limit
    /\ st.bin_limit > 1
    /\ st.chunk_size > 1
    /\ st.is_collapsed

\* the keys min_key and max_key of a store with bins lie within its bins
KeysWithinBins(s) ==
    ~is_empty(s) =>
        /\ s.offset <= s.min_key
        /\ s.min_key <= s.max_key
        /\ s.max_key < s.offset + length(s)

\* C28: for every store variant, in every non-empty state reachable by add and
\* merge calls, offset <= min_key <= max_key < offset + length, so that
\* key - offset is a position of the bins for every key in [min_key, max_key].
C28_KeysWithinBins ==
    KeysWithinBins(st) /\ KeysWithinBins(other) /\ KeysWithinBins(ref)

\* a collapsed store after a merge, its bins at the limit, min_key and max_key
\* at the two ends of the bins
C28_Witness ==
    /\ merged
    /\ st.kind # "dense"
    /\ st.is_collapsed
    /\ length(st) > 1
    /\ st.min_key = st.offset
    /\ st.max_key = st.offset + length(st) - 1
    /\ other.count > 0

\* every bin whose key lies below min_key or above max_key is zero
ZeroOutsideKeys(s) ==
    \A i \in 1..length(s) :
        (i - 1 + s.offset < s.min_key \/ i - 1 + s.offset > s.max_key)
            => s.bins[i] = 0

\* C29: for every store variant, in every state reachable by add calls with
\* positive weights and merge calls, every bin whose key lies outside
\* [min_key, max_key] is zero: no non-zero counter lies below min_key or above
\* max_key.
C29_ZeroOutsideKeys ==
    ZeroOutsideKeys(st) /\ ZeroOutsideKeys(other) /\ ZeroOutsideKeys(ref)

\* a store after a merge that took weights from both stores, with more bins
\* than keys between min_key and max_key
C29_Witness ==
    /\ merged
    /\ other.count > 0
    /\ st.count > other.count
    /\ st.min_key < st.max_key
    /\ length(st) > st.max_key - st.min_key + 1

\* the number of keys from the lowest to the highest of the store's keys and
\* the keys key and second_key that a call asks for
RequestedLength(s, key, second_key) ==
    Max2(Max2(key, second_key), s.max_key)
        - Min2(Min2(key, second_key), s.min_key) + 1

\* the length of the bins when adjust is called: extend_range has lengthened
\* them to get_new_length if that is more than they had
BackingLength(s, key, second_key) ==
    Max2(length(s),
         get_new_length(s, Min2(Min2(key, second_key), s.min_key),
                        Max2(Max2(key, second_key), s.max_key)))

\* t is the collapsing store s after a call that asked for key and second_key:
\* a collapsed store stays collapsed, and a store that was not collapsed is
\* collapsed exactly if the keys asked for exceed the length of the bins
CollapsedWhenExceeded(s, t, key, second_key) ==
    /\ s.is_collapsed => t.is_collapsed
    /\ ~s.is_collapsed =>
          (t.is_collapsed <=>
              RequestedLength(s, key, second_key) > BackingLength(s, key, second_key))

\* t is the collapsing store s after s.merge(store): nothing happens with an
\* empty argument, an empty receiver becomes a copy of the argument, and
\* otherwise the merge asks for the keys store.min_key and store.max_key
CollapsedAfterMerge(s, t, store) ==
    IF store.count = 0 THEN t.is_collapsed = s.is_collapsed
    ELSE IF s.count = 0
    THEN (s.is_collapsed => t.is_collapsed) /\ t.is_collapsed = store.is_collapsed
    ELSE CollapsedWhenExceeded(s, t, store.min_key, store.max_key)

\* a step of SpecStores seen from its collapsing stores: an add to st or to
\* other, which ref receives as well, or st.merge(other)
CollapseStep ==
    st.kind # "dense" =>
        IF added' # added
        THEN \A key \in MergeKeys :
                added'[key] # added[key] =>
                    /\ CollapsedWhenExceeded(ref, ref', key, key)
                    /\ IF other' = other
                       THEN CollapsedWhenExceeded(st, st', key, key)
                       ELSE CollapsedWhenExceeded(other, other', key, key)
        ELSE CollapsedAfterMerge(st, st', other)

NotCollapsedAtFirst ==
    ~st.is_collapsed /\ ~other.is_collapsed /\ ~ref.is_collapsed

\* C30: in a collapsing store is_collapsed is false initially, becomes true in
\* the step in which the keys asked for first exceed the length of the bins,
\* and once true it stays true after every later add and every later merge
\* into that store.
C30_CollapsedIsSticky == NotCollapsedAtFirst /\ [][CollapseStep]_vars

\* a collapsed store st that has merged a non-empty store and received an add
\* since, when all adds are made
C30_Witness ==
    /\ st.kind # "dense"
    /\ merged
    /\ st.is_collapsed
    /\ ref.is_collapsed
    /\ st.bin_limit > 1
    /\ st.count > other.count
    /\ other.count > 0
    /\ nAdds = MaxStoresAdds

\* a collapsed store is full: its bins are bin_limit long and min_key and
\* max_key are the keys of the first and the last bin
CollapsedShape(s) ==
    (s.kind # "dense" /\ s.is_collapsed) =>
        /\ s.offset = s.min_key
        /\ s.max_key = s.offset + length(s) - 1
        /\ length(s) = s.bin_limit

\* t is the store s after s.add(key, weight): a collapsed lowest store gains
\* the weight of a key below min_key in its first bin and in count, a
\* collapsed highest store that of a key above max_key in its last bin and in
\* count, and nothing else changes
SinkAdd(s, t, key, weight) ==
    /\ (s.kind = "lowest" /\ s.is_collapsed /\ key < s.min_key) =>
          t = [s EXCEPT !.bins[1] = @ + weight, !.count = @ + weight]
    /\ (s.kind = "highest" /\ s.is_collapsed /\ key > s.max_key) =>
          t = [s EXCEPT !.bins[length(s)] = @ + weight, !.count = @ + weight]

\* an add of SpecStores seen from the stores that received it
SinkStep ==
    \A key \in MergeKeys :
        added'[key] # added[key] =>
            /\ SinkAdd(ref, ref', key, added'[key] - added[key])
            /\ IF other' = other
               THEN SinkAdd(st, st', key, added'[key] - added[key])
               ELSE SinkAdd(other, other', key, added'[key] - added[key])

CollapsedShapes ==
    CollapsedShape(st) /\ CollapsedShape(other) /\ CollapsedShape(ref)

\* C31: once a collapsing-lowest store is collapsed, offset = min_key,
\* max_key = offset + length - 1 and length = bin_limit, and add(key, w) with
\* key < min_key adds w to the first bin and to count and leaves everything
\* else unchanged; symmetrically, a collapsed collapsing-highest store adds
\* the weight of a key above max_key to its last bin and changes nothing else.
C31_CollapsedSink == []CollapsedShapes /\ [][SinkStep]_vars

\* a collapsed lowest store of more than one bin, filled by adds alone, whose
\* first bin holds more than one add and that received a key below min_key
C31_Witness ==
    /\ st.kind = "lowest"
    /\ st.is_collapsed
    /\ ~merged
    /\ other.count = 0
    /\ length(st) > 1
    /\ nAdds = MaxStoresAdds
    /\ st.bins[1] = st.count - 1
    /\ \E key \in MergeKeys : key < st.min_key /\ added[key] > WUnit

(***************************************************************************)
(* SpecRanges: two stores of one class and one bin_limit receive add calls *)
(* over keys that span more than the bin_limit, and st merges other.  The  *)
(* stores record what their bin-list operations were asked to do.          *)
(***************************************************************************)
\* st.add(key)
RAdd ==
    /\ nAdds < MaxRangeAdds
    /\ \E key \in Keys :
          /\ st' = StoreAdd(st, key, WUnit)
          /\ added' = [added EXCEPT ![key] = @ + WUnit]
    /\ nAdds' = nAdds + 1
    /\ UNCHANGED <<other, ref, unit, merged, sketchVars, mapVars>>

\* other.add(key)
RAddOther ==
    /\ nAdds < MaxRangeAdds
    /\ \E key \in Keys :
          /\ other' = StoreAdd(other, key, WUnit)
          /\ added' = [added EXCEPT ![key] = @ + WUnit]
    /\ nAdds' = nAdds + 1
    /\ UNCHANGED <<st, ref, unit, merged, sketchVars, mapVars>>

NextRanges == RAdd \/ RAddOther \/ MMerge

SpecRanges == InitStore /\ [][NextRanges]_vars

\* no bin-list operation of the store was asked for a range outside the
\* bins, and no shift_bins removed an element that was not zero
WithinBins(s) == ~s.thrown /\ ~s.ub /\ ~s.lost

\* C39: every bin-list shrink or range operation issued by a store during add
\* or merge (stores of the same bin_limit) meets its precondition and loses
\* no weight: shift_bins is called with |shift| <= length and removes only
\* zero-valued elements, and collapsed_count and replace_range_with_zeros are
\* called with 0 <= start <= end <= length, so that no out-of-bounds error is
\* raised.
C39_OperationsWithinBins == WithinBins(st) /\ WithinBins(other)

\* a collapsing store that has merged a store holds, after collapsing a range
\* of its bins and shifting them, the weight of several keys in its sink bin
\* and weight in its other bins
C39_Witness ==
    /\ merged
    /\ st.kind # "dense"
    /\ st.is_collapsed
    /\ st.bin_limit = MaxBinLimit
    /\ length(st) = st.bin_limit
    /\ st.max_key - st.min_key + 1 = length(st)
    /\ st.offset # 0
    /\ \A k \in st.min_key..st.max_key : Counter(st, k) > 0
    /\ \E k \in {st.min_key, st.max_key} : Counter(st, k) > WUnit
    /\ WithinBins(st)

(***************************************************************************)
(* SpecOrder: a dense store st and a sketch sk on dense stores receive the *)
(* same add calls; added is the sequence of the (value, weight) pairs in   *)
(* the order of the calls.  The store takes the value as its key.          *)
(***************************************************************************)
OrderValues == (-MaxOrderValue)..MaxOrderValue

InitOrder ==
    /\ \E c \in 1..MaxOrderChunk : st = NewStore("dense", 0, c)
    /\ sk = SketchOf(NewStore("dense", 0, SketchChunk), 1, 2)
    /\ added = << >>
    /\ nAdds = 0
    /\ mapping = << >>
    /\ probe = << >>
    /\ unit = TRUE
    /\ merged = FALSE
    /\ otherMerged = FALSE
    /\ other = << >>
    /\ ref = << >>
    /\ skOther = << >>
    /\ single = << >>
    /\ values = << >>

\* st.add(val, weight) and sk.add(val, weight)
OAdd ==
    /\ nAdds < MaxOrderAdds
    /\ \E val \in OrderValues, weight \in StoreWeights :
          /\ st' = StoreAdd(st, val, weight)
          /\ sk' = SketchAdd(sk, val, weight)
          /\ added' = Append(added, <<val, weight>>)
          /\ unit' = (unit /\ weight = WUnit)
    /\ nAdds' = nAdds + 1
    /\ UNCHANGED <<other, ref, merged, otherMerged, skOther, single, values,
                   mapVars>>

SpecOrder == InitOrder /\ [][OAdd]_vars

\* the store s after add(val, weight) for the pairs of seq from position i on
RECURSIVE StoreReplay(_, _, _)
StoreReplay(s, seq, i) ==
    IF i > Len(seq) THEN s
    ELSE StoreReplay(StoreAdd(s, seq[i][1], seq[i][2]), seq, i + 1)

\* the sketch k after add(val, weight) for the pairs of seq from position i on
RECURSIVE SketchReplay(_, _, _)
SketchReplay(k, seq, i) ==
    IF i > Len(seq) THEN k
    ELSE SketchReplay(SketchAdd(k, seq[i][1], seq[i][2]), seq, i + 1)

\* the pairs of added in the order p
Reordered(p) == [i \in 1..Len(added) |-> added[p[i]]]

\* the orders that differ from the order of added by the exchange of two
\* neighbours.  Every sequence of pairs is the added of some state, and every
\* order of a multiset is reached from every other by such exchanges, so what
\* holds in every state between added and these orders holds between any two
\* orders.
NeighbourOrders ==
    {p \in Permutations(1..Len(added)) :
        \E i \in 1..(Len(added) - 1) :
            /\ p[i] = i + 1
            /\ p[i + 1] = i
            /\ \A j \in 1..Len(added) : j \notin {i, i + 1} => p[j] = j}

\* the ranks asked of the store of SpecOrder, as numerators over RankDen
OrderRankNums == (-RankDen)..((MaxOrderAdds + 1) * RankDen)

\* the ranks for which the comment of BaseStore::key_at_rank gives the answer:
\* from 0 on when lower, above -1 when not lower
DocumentedRank(rank_num, lower) ==
    IF lower THEN rank_num >= 0 ELSE rank_num > -RankDen

\* two stores have the same per-key counters, min_key, max_key and count
SameContents(s, t) ==
    /\ SameCounters(s, t)
    /\ s.min_key = t.min_key
    /\ s.max_key = t.max_key
    /\ s.count = t.count

\* the store and the sketch that received the pairs of added in the order p
StoreInOrder(p) ==
    StoreReplay(NewStore("dense", 0, st.chunk_size), Reordered(p), 1)

SketchInOrder(p) ==
    SketchReplay(SketchOf(NewStore("dense", 0, SketchChunk), 1, 2), Reordered(p), 1)

\* the sketch k has the contents of sk and answers every quantile query as sk
SameSketchAnswers(k) ==
    /\ SameContents(sk.store, k.store)
    /\ SameContents(sk.negative_store, k.negative_store)
    /\ sk.zero_count = k.zero_count
    /\ sk.count = k.count
    /\ \A q_num \in WQNums :
          get_quantile_value(sk, q_num, QDen) = get_quantile_value(k, q_num, QDen)

\* C24 as stated: a dense store, and a sketch on dense stores, that received
\* the pairs of added in another order (two neighbours exchanged) has the same
\* per-key counters, min_key, max_key and count and gives the same answer to
\* every key_at_rank and get_quantile_value query.
C24_OrderIndependent ==
    \A p \in NeighbourOrders :
        LET s == StoreInOrder(p)
        IN  /\ SameContents(st, s)
            /\ \A rank_num \in OrderRankNums, lower \in BOOLEAN :
                  key_at_rank(st, rank_num, RankDen, lower)
                      = key_at_rank(s, rank_num, RankDen, lower)
            /\ SameSketchAnswers(SketchInOrder(p))

\* C24 amended: as C24, with the key_at_rank queries restricted to the ranks
\* from 0 on (lower) and above -1 (not lower); below them key_at_rank returns
\* the key of the first bin of the backing sequence, which depends on the
\* order of the insertions.
C24_OrderIndependentDocumentedRanks ==
    \A p \in NeighbourOrders :
        LET s == StoreInOrder(p)
        IN  /\ SameContents(st, s)
            /\ \A rank_num \in OrderRankNums, lower \in BOOLEAN :
                  DocumentedRank(rank_num, lower) =>
                      key_at_rank(st, rank_num, RankDen, lower)
                          = key_at_rank(s, rank_num, RankDen, lower)
            /\ SameSketchAnswers(SketchInOrder(p))

\* pairs with different values and weights were inserted, and another order
\* leaves the store with the same contents at another offset, where
\* key_at_rank agrees at rank 0 and differs at rank -1/RankDen
C24_Witness ==
    /\ Len(added) = MaxOrderAdds
    /\ Cardinality({added[i][1] : i \in 1..Len(added)}) >= 2
    /\ ~unit
    /\ \E p \in NeighbourOrders :
          /\ StoreInOrder(p).offset # st.offset
          /\ SameContents(st, StoreInOrder(p))
          /\ key_at_rank(st, 0, RankDen, TRUE)
                = key_at_rank(StoreInOrder(p), 0, RankDen, TRUE)
          /\ key_at_rank(st, -1, RankDen, TRUE)
                # key_at_rank(StoreInOrder(p), -1, RankDen, TRUE)

(***************************************************************************)
(* SpecThreeStores: three dense stores, st, other and ref, each with a     *)
(* chunk size of its own, filled by add calls; the merges are applied to   *)
(* the stores of each state.                                               *)
(***************************************************************************)
AlgKeys == (-MaxAlgKey)..MaxAlgKey

InitThreeStores ==
    /\ \E a \in 1..MaxChunk, b \in 1..MaxChunk, c \in 1..MaxChunk :
          /\ st = NewStore("dense", 0, a)
          /\ other = NewStore("dense", 0, b)
          /\ ref = NewStore("dense", 0, c)
    /\ added = [k \in AlgKeys |-> 0]
    /\ nAdds = 0
    /\ mapping = << >>
    /\ probe = << >>
    /\ unit = TRUE
    /\ merged = FALSE
    /\ otherMerged = FALSE
    /\ sk = << >>
    /\ skOther = << >>
    /\ single = << >>
    /\ values = << >>

\* st.add(key, weight)
TAdd ==
    /\ nAdds < MaxAlgAdds
    /\ \E key \in AlgKeys, weight \in StoreWeights :
          /\ st' = StoreAdd(st, key, weight)
          /\ added' = [added EXCEPT ![key] = @ + weight]
    /\ nAdds' = nAdds + 1
    /\ UNCHANGED <<other, ref, unit, merged, sketchVars, mapVars>>

\* other.add(key, weight)
TAddOther ==
    /\ nAdds < MaxAlgAdds
    /\ \E key \in AlgKeys, weight \in StoreWeights :
          /\ other' = StoreAdd(other, key, weight)
          /\ added' = [added EXCEPT ![key] = @ + weight]
    /\ nAdds' = nAdds + 1
    /\ UNCHANGED <<st, ref, unit, merged, sketchVars, mapVars>>

\* ref.add(key, weight)
TAddRef ==
    /\ nAdds < MaxAlgAdds
    /\ \E key \in AlgKeys, weight \in StoreWeights :
          /\ ref' = StoreAdd(ref, key, weight)
          /\ added' = [added EXCEPT ![key] = @ + weight]
    /\ nAdds' = nAdds + 1
    /\ UNCHANGED <<st, other, unit, merged, sketchVars, mapVars>>

NextThreeStores == TAdd \/ TAddOther \/ TAddRef

SpecThreeStores == InitThreeStores /\ [][NextThreeStores]_vars

\* C25: on dense stores merge is commutative and associative: st.merge(other)
\* leaves st with the per-key counters, min_key, max_key and count that
\* other.merge(st) leaves other with, and merging other and then ref into st
\* gives the same as merging into st the store other that merged ref.
C25_MergeCommutesAssociates ==
    /\ SameContents(MergeDense(st, other), MergeDense(other, st))
    /\ SameContents(MergeDense(MergeDense(st, other), ref),
                    MergeDense(st, MergeDense(other, ref)))

\* three non-empty stores with different keys and different chunk sizes,
\* whose merges in the two orders place the bins at different offsets
C25_Witness ==
    /\ st.count > 0
    /\ other.count > 0
    /\ ref.count > 0
    /\ st.min_key # other.min_key
    /\ other.min_key # ref.min_key
    /\ st.chunk_size # other.chunk_size
    /\ MergeDense(st, other).offset # MergeDense(other, st).offset
    /\ SameContents(MergeDense(st, other), MergeDense(other, st))
    /\ MergeDense(st, other).count = st.count + other.count


(***************************************************************************)
(* SpecTwin: a collapsing store st and a dense store ref of the same chunk *)
(* size receive the same add calls, and so do the collapsing store other   *)
(* and the dense store single; st merges other when ref merges single.     *)
(***************************************************************************)
InitTwin ==
    /\ st \in {s \in StoreConfigs : s.kind # "dense"}
    /\ other = st
    /\ ref = NewStore("dense", 0, st.chunk_size)
    /\ single = ref
    /\ added = [k \in Keys |-> 0]
    /\ nAdds = 0
    /\ mapping = << >>
    /\ probe = << >>
    /\ unit = TRUE
    /\ merged = FALSE
    /\ sk = << >>
    /\ skOther = << >>
    /\ values = << >>
    /\ otherMerged = FALSE

\* st.add(key, weight) and ref.add(key, weight)
NAdd ==
    /\ nAdds < MaxTwinAdds
    /\ \E key \in MergeKeys, weight \in StoreWeights :
          /\ st' = StoreAdd(st, key, weight)
          /\ ref' = StoreAdd(ref, key, weight)
          /\ added' = [added EXCEPT ![key] = @ + weight]
    /\ nAdds' = nAdds + 1
    /\ UNCHANGED <<other, single, unit, merged, sk, skOther, values,
                   otherMerged, mapVars>>

\* other.add(key, weight) and single.add(key, weight)
NAddOther ==
    /\ nAdds < MaxTwinAdds
    /\ \E key \in MergeKeys, weight \in StoreWeights :
          /\ other' = StoreAdd(other, key, weight)
          /\ single' = StoreAdd(single, key, weight)
          /\ added' = [added EXCEPT ![key] = @ + weight]
    /\ nAdds' = nAdds + 1
    /\ UNCHANGED <<st, ref, unit, merged, sk, skOther, values,
                   otherMerged, mapVars>>

\* st.merge(other) and ref.merge(single); the next arguments are stores
\* constructed afresh
NMerge ==
    /\ st' = StoreMerge(st, other)
    /\ ref' = StoreMerge(ref, single)
    /\ other' = NewStore(other.kind, other.bin_limit, other.chunk_size)
    /\ single' = NewStore("dense", 0, single.chunk_size)
    /\ merged' = (merged \/ (st.count > 0 /\ other.count > 0))
    /\ UNCHANGED <<added, nAdds, unit, sk, skOther, values, otherMerged, mapVars>>

NextTwin == NAdd \/ NAddOther \/ NMerge

SpecTwin == InitTwin /\ [][NextTwin]_vars

\* the number of keys from min_key to max_key of the dense store: the keys
\* that the store and its collapsing twin were given
KeyRange(s) == IF s.count = 0 THEN 0 ELSE s.max_key - s.min_key + 1

\* the collapsing store c, with the dense store d that was fed the same
\* calls, is as the dense store while the keys fit in bin_limit
AsDense(c, d) ==
    KeyRange(d) <= c.bin_limit => (~c.is_collapsed /\ SameContents(c, d))

\* C34: as long as the key range max_key - min_key + 1 of a collapsing store
\* has never exceeded bin_limit, the store is not collapsed and holds the same
\* per-key counters, min_key, max_key and count as a dense store fed the same
\* add and merge calls.
C34_AsDenseWhileFitting == AsDense(st, ref) /\ AsDense(other, single)

\* a collapsing store of more than one bin whose keys fill bin_limit exactly,
\* after a merge of a non-empty store
C34_Witness ==
    /\ merged
    /\ st.bin_limit > 1
    /\ KeyRange(ref) = st.bin_limit
    /\ ~st.is_collapsed
    /\ st.offset # ref.offset
    /\ SameContents(st, ref)

(***************************************************************************)
(* SpecLimits: SpecStores for two collapsing stores of the same class that *)
(* were constructed with different bin limits.                             *)
(***************************************************************************)
InitLimits ==
    /\ st \in {s \in StoreConfigs : s.kind # "dense"}
    /\ other \in {s \in StoreConfigs : /\ s.kind = st.kind
                                       /\ s.chunk_size = st.chunk_size
                                       /\ s.bin_limit # st.bin_limit}
    /\ ref = st
    /\ added = [k \in Keys |-> 0]
    /\ nAdds = 0
    /\ mapping = << >>
    /\ probe = << >>
    /\ unit = TRUE
    /\ merged = FALSE
    /\ sk = << >>
    /\ skOther = << >>
    /\ single = << >>
    /\ values = << >>
    /\ otherMerged = FALSE

SpecLimits == InitLimits /\ [][NextStores]_vars

\* C35: merging a collapsing store into a non-empty collapsing store of the
\* same variant but a different bin_limit is permitted: the merge completes
\* without raising an error and leaves the receiver with sum(bins) = count and
\* length <= the receiver's bin_limit.
C35_MergeOtherLimit ==
    (merged /\ st.bin_limit # other.bin_limit) =>
        /\ ~st.thrown
        /\ ~st.ub
        /\ sum(st.bins) = st.count
        /\ length(st) <= st.bin_limit

\* the merge has thrown the exception of collapsed_count
C35_MergeThrows == merged /\ st.bin_limit # other.bin_limit /\ st.thrown

\* the merge has completed and the bins do not add up to the count
C35_MergeMiscounts ==
    /\ merged
    /\ st.bin_limit # other.bin_limit
    /\ ~st.thrown
    /\ ~st.ub
    /\ sum(st.bins) # st.count

(***************************************************************************)
(* SpecNoLimit: a collapsing store and a collapsing sketch are constructed *)
(* with a bin_limit that is not positive.  ref is the store and single the *)
(* sketch constructed with kDefaultBinLimit; they receive the same calls.  *)
(***************************************************************************)
\* BaseDDSketch::adjust_bin_limit
adjust_bin_limit(bin_limit) ==
    IF bin_limit <= 0 THEN kDefaultBinLimit ELSE bin_limit

\* LogCollapsingLowestDenseDDSketch(relative_accuracy, bin_limit) and
\* LogCollapsingHighestDenseDDSketch(relative_accuracy, bin_limit)
CollapsingSketch(kind, bin_limit) ==
    NewSketch(Gamma,
              NewStore(kind, adjust_bin_limit(bin_limit), SketchChunk),
              NewStore(kind, adjust_bin_limit(bin_limit), SketchChunk))

NoLimits == (-MaxNoLimit)..0

InitNoLimit ==
    /\ \E kind \in {"lowest", "highest"}, b \in NoLimits, c \in 1..MaxChunk :
          /\ st = NewStore(kind, b, c)
          /\ ref = NewStore(kind, kDefaultBinLimit, c)
          /\ sk = CollapsingSketch(kind, b)
          /\ single = CollapsingSketch(kind, kDefaultBinLimit)
    /\ nAdds = 0
    /\ added = [k \in Keys |-> 0]
    /\ values = [v \in Values |-> 0]
    /\ unit = TRUE
    /\ merged = FALSE
    /\ otherMerged = FALSE
    /\ other = << >>
    /\ skOther = << >>
    /\ mapping = << >>
    /\ probe = << >>

\* st.add(key, weight)
ZAdd ==
    /\ nAdds < MaxNoLimitAdds
    /\ \E key \in MergeKeys, weight \in StoreWeights :
          /\ st' = StoreAdd(st, key, weight)
          /\ ref' = StoreAdd(ref, key, weight)
          /\ added' = [added EXCEPT ![key] = @ + weight]
          /\ unit' = (unit /\ weight = WUnit)
    /\ nAdds' = nAdds + 1
    /\ UNCHANGED <<other, merged, sk, skOther, single, values, otherMerged,
                   mapVars>>

\* sk.add(val, weight)
ZSketchAdd ==
    /\ nAdds < MaxNoLimitAdds
    /\ \E val \in Values, weight \in SketchWeights :
          /\ sk' = SketchAdd(sk, val, weight)
          /\ single' = SketchAdd(single, val, weight)
          /\ values' = [values EXCEPT ![val] = @ + weight]
    /\ nAdds' = nAdds + 1
    /\ UNCHANGED <<st, ref, added, unit, other, merged, skOther, otherMerged,
                   mapVars>>

NextNoLimit == ZAdd \/ ZSketchAdd

SpecNoLimit == InitNoLimit /\ [][NextNoLimit]_vars

\* the store constructed with the bin_limit asked for is the one constructed
\* with kDefaultBinLimit, and no call on it has failed
StoreAsDefault ==
    /\ ~st.thrown
    /\ ~st.ub
    /\ SameContents(st, ref)
    /\ sum(st.bins) = st.count

\* the sketch constructed with the bin_limit asked for is the one constructed
\* with kDefaultBinLimit
SketchAsDefault == sk = single

\* C36: a collapsing store or collapsing sketch constructed with
\* bin_limit <= 0 behaves exactly as one constructed with bin_limit 2048 (no
\* constructor of the header rejects a bin_limit); in particular the first
\* add on it succeeds and stores the weight.
C36_NoLimitIsDefault == StoreAsDefault /\ SketchAsDefault

\* the first add on the store of bin_limit 0 wrote outside its empty deque
C36_AddOutsideBins ==
    /\ st.bin_limit = 0
    /\ st.count > 0
    /\ st.ub
    /\ length(st) = 0

\* the first add on the store of a negative bin_limit threw, and nothing was
\* stored
C36_AddThrows ==
    /\ st.bin_limit < 0
    /\ ref.count > 0
    /\ st.thrown
    /\ st.count = 0

\* the sketch has stored its adds with the default limit
C36_SketchStores ==
    /\ sk.count > 0
    /\ sk.store.bin_limit = kDefaultBinLimit
    /\ sk.store.count > 0
    /\ sk.negative_store.count > 0

(***************************************************************************)
(* SpecMapping: a KeyMapping of each class is constructed with an offset   *)
(* and asked for the key of a value.  The offsets are those of             *)
(* MappingTest::test_offsets (0, 1, -12.23, 7768.3) and the halves 1/2 and *)
(* -1/2.                                                                   *)
(***************************************************************************)
TestOffsets == {Frac(0, 1), Frac(1, 1), Frac(-1223, 100), Frac(776830, 100)}

HalfOffsets == {Frac(1, 2), Frac(-1, 2)}

MapOffsets == TestOffsets \cup HalfOffsets

MapValues == 1..MaxMapValue

InitMapping ==
    /\ mapping \in [variant : Variants, offset : MapOffsets]
    /\ probe = << >>
    /\ st = << >>
    /\ other = << >>
    /\ ref = << >>
    /\ added = << >>
    /\ nAdds = 0
    /\ unit = FALSE
    /\ merged = FALSE
    /\ sk = << >>
    /\ skOther = << >>
    /\ single = << >>
    /\ values = << >>
    /\ otherMerged = FALSE

\* mapping.key(value)
MKey ==
    /\ \E value \in MapValues :
          probe' = [value |-> value, key |-> KeyMapping_key(mapping, value)]
    /\ UNCHANGED <<mapping, nAdds, unit, merged, storeVars, sketchVars>>

SpecMapping == InitMapping /\ [][MKey]_vars

Probed == probe # << >>

\* the offsets with which the comparisons of ValueWithinAccuracy stay small
SmallOffset == mapping.offset.den <= 2

\* C26 (as the specification states it): for every mapping class and every
\* value, mapping.value(mapping.key(value)) is within the relative accuracy
\* alpha of value
C26_RelativeAccuracy ==
    (Probed /\ SmallOffset) =>
        ValueWithinAccuracy(mapping, probe.key, probe.value)

\* the mapping answers outside the accuracy: an offset of 1/2 and the value 1
C26_Inaccurate ==
    /\ Probed
    /\ mapping.offset = Frac(1, 2)
    /\ probe.value = 1
    /\ ValueOutsideAccuracy(mapping, probe.key, probe.value)

\* with an integer offset every mapping class is within the accuracy
AccurateAtIntegerOffsets ==
    (Probed /\ mapping.offset.den = 1) =>
        ValueWithinAccuracy(mapping, probe.key, probe.value)

\* no value of pow_gamma lies between GammaBelow * value and
\* GammaAbove * value, so that ValueWithinAccuracy is the negation of
\* ValueOutsideAccuracy
AccuracyDecided ==
    (Probed /\ SmallOffset) =>
        (ValueWithinAccuracy(mapping, probe.key, probe.value)
            <=> ~ValueOutsideAccuracy(mapping, probe.key, probe.value))

\* k is num / den with its fraction discarded, and k is the floor of num / den
TowardsZero(k, num, den) ==
    IF num >= 0
    THEN k * den <= num /\ num < (k + 1) * den
    ELSE (k - 1) * den < num /\ num <= k * den

IsFloor(k, num, den) == k * den <= num /\ num < (k + 1) * den

\* C27 (as the specification states it): mapping.key(1) is the floor of the
\* offset
C27_KeyOfOneIsFloor ==
    (Probed /\ probe.value = 1) =>
        IsFloor(probe.key, mapping.offset.num, mapping.offset.den)

\* C27 (amended): mapping.key(1) is the offset converted to Index, its
\* fraction discarded towards zero
C27_KeyOfOneIsTruncatedOffset ==
    (Probed /\ probe.value = 1) =>
        TowardsZero(probe.key, mapping.offset.num, mapping.offset.den)

C27_Witness ==
    /\ Probed
    /\ probe.value = 1
    /\ mapping.offset = Frac(-1223, 100)
    /\ probe.key = -12

=============================================================================
